---- MODULE Spec2Model ----
(***************************************************************************)
(* Verification model of the Forge-Hub RAG document system.                *)
(*                                                                         *)
(* Part 1: EmbeddingQueue (lib/queue/embeddingQueue.ts) over the           *)
(*         embedding_jobs table.  Every await of the TypeScript code is a  *)
(*         point where other handlers may run; a database request takes    *)
(*         effect atomically at some moment between its issue and the      *)
(*         resumption of the awaiting code.                                *)
(* Part 2: GeminiEmbeddingService (lib/embeddings/geminiEmbeddings.ts)     *)
(*         over the embedding_cache table.                                 *)
(***************************************************************************)
EXTENDS Integers, Sequences, FiniteSets, TLC

(***************************************************************************)
(* Bounds of the model                                                     *)
(***************************************************************************)
NumDocs == 2
MaxJobs == 2
MaxInv == 2
NumCallers == 2
MaxLoops == 2
MaxOverrun == 1

Docs == 1..NumDocs
JobIds == 1..MaxJobs
InvIds == 1..MaxInv
Callers == 1..NumCallers
LoopIds == 1..MaxLoops

(***************************************************************************)
(* Program constants                                                       *)
(***************************************************************************)
DefaultConcurrency == 3
MinConcurrency == 1
MaxConcurrency == 10
RetryCeiling == 3

Priorities == {"low", "normal", "high"}
PriorityInputs == {"normal", "high"}
ActiveStatuses == {"pending", "processing"}

\* document_chunks rows per document (the table is filled by the upload path)
DocChunks(d) == d

VARIABLES
    jobs,         \* embedding_jobs table: job id -> row ("none" = no such row)
    nextJob,      \* next id / created_at the store hands out
    processing,   \* EmbeddingQueue.processing
    concurrency,  \* EmbeddingQueue.concurrency
    activeJobs,   \* EmbeddingQueue.activeJobs
    adds,         \* addEmbeddingJob calls in flight, per caller
    loops,        \* startProcessing loops
    invs          \* processJob invocations

qvars == <<jobs, nextJob, processing, concurrency, activeJobs, adds, loops, invs>>

VARIABLES
    cache,        \* embedding_cache table: content_hash -> row
    calls,        \* generateEmbedding calls in flight, per caller
    rlPoints,     \* points consumed in the rate limiter's current window
    tracking      \* rate_limit_tracking: the rows written by trackUsage

evars == <<cache, calls, rlPoints, tracking>>

VARIABLES
    batch         \* the generateBatchEmbeddings call: its texts, position, results

bvars == <<batch>>

VARIABLES
    stats,        \* rate_limit_tracking rows of one (service, owner), one window
    ups,          \* updateRateLimitStats calls in flight, per caller
    applied       \* the increments of the calls that have returned

svars == <<stats, ups, applied>>

VARIABLES
    rateLimitStore, \* middleware: key -> {count, resetTime} (count 0 = no record)
    now,            \* Date.now(), in ms
    response,       \* the middleware's answer to the latest request
    admitted        \* requests let through, per key, since its record was
                    \* created; whether an upload was let through

mvars == <<rateLimitStore, now, response, admitted>>

\* the hybrid search endpoint and the ranking of search results
VARIABLES
    hybrid,         \* the frame of the POST handler of the hybrid search
    ranking         \* the latest call of rankSearchResults

hvars == <<hybrid, ranking>>

\* the cache of search results
VARIABLES
    searchCache,    \* the rows of vector_search_cache
    clock,          \* the time, in half hours
    lookup          \* the latest call of getCachedSearchResults

cvars == <<searchCache, clock, lookup>>

\* the searches of the service and of the similarity route
VARIABLES
    embeddings,     \* the row of embeddings of each chunk, with its
                    \* cosine similarity to the query
    found           \* the latest search and its results

dvars == <<embeddings, found>>

\* the text chunker
VARIABLES
    chunking        \* the latest call of chunkText

tvars == <<chunking>>

\* the storage of embeddings and the reprocess endpoint of a chunk
VARIABLES
    vectorRows,     \* the number of rows of embeddings of each chunk
    reprocess       \* the frame of each POST of the reprocess endpoint

gvars == <<vectorRows, reprocess>>

\* the time of the embedding queue, and the documents its jobs belong to
VARIABLES
    queueNow,       \* Date.now() of the queue, in minutes
    scheduledAt,    \* the scheduledAt that retryJob computed last, per job
    documents       \* documents: processing_status and processing_error

wvars == <<queueNow, scheduledAt, documents>>

\* the rate limiter over its windows
VARIABLES
    limitRows,      \* rate_limit_tracking: the rows of all services and owners
    limitNow,       \* the time of the rate limiter, in half windows
    limitCheck      \* the last checkRateLimit call and what it returned

lvars == <<limitRows, limitNow, limitCheck>>

\* the index manager
VARIABLES
    indexRun        \* the autoOptimizeIndexes call: its position, what it read
                    \* and the rebuilds it asked for

ivars == <<indexRun>>

\* the document-processing queue
VARIABLES
    pjobs,          \* processing_jobs, by id
    pinvs,          \* processNextJob invocations, by slot
    pdocs,          \* documents: processing_status, processing_error, chunk_count
    pchunks         \* document_chunks: the chunk_index of every row, per document

pvars == <<pjobs, pinvs, pdocs, pchunks>>

zvars == <<cvars, dvars, tvars, gvars, wvars, lvars, ivars, pvars>>

\* the state outside the embedding queue and the embedding service
xvars == <<bvars, svars, mvars, hvars, zvars>>

vars == <<qvars, evars, xvars>>

NoRow == [document_id |-> 0, status |-> "none", retry_count |-> 0,
          priority |-> "normal", total_chunks |-> 0,
          processed_chunks |-> 0, failed_chunks |-> 0]

IdleAdd == [pc |-> "idle", doc |-> 0, priority |-> "normal", job |-> 0]

NoLoop == [pc |-> "none"]

NoInv == [pc |-> "none", job |-> 0, doc |-> 0, retry_count |-> 0, idx |-> 0]

Rows == {j \in JobIds : jobs[j].status # "none"}

ActiveJobsOf(d) ==
    {j \in Rows : jobs[j].document_id = d /\ jobs[j].status \in ActiveStatuses}

\* supabase .single(): the row when exactly one row matches, otherwise
\* {data: null, error}; the caller reads data only
Single(rows) == IF Cardinality(rows) = 1 THEN CHOOSE j \in rows : TRUE ELSE 0

\* getNextJob: status = 'pending', order by created_at ascending, limit 1;
\* ids are handed out in creation order, so the smallest id is the oldest
GetNextJob ==
    LET pend == {j \in Rows : jobs[j].status = "pending"}
    IN  IF pend = {} THEN 0
        ELSE CHOOSE j \in pend : \A k \in pend : j <= k

\* embeddingProcessor.processDocumentChunks: inserts the job row
ProcessDocumentChunks(d) ==
    [document_id |-> d, status |-> "pending", retry_count |-> 0,
     priority |-> "normal", total_chunks |-> DocChunks(d),
     processed_chunks |-> 0, failed_chunks |-> 0]

\* the head of the while loop of startProcessing, up to its next await
LoopTop(proc, active, conc) ==
    IF ~proc THEN "none"
    ELSE IF Cardinality(active) >= conc THEN "sleep"
    ELSE "fetching"

FreeLoops == {l \in LoopIds : loops[l].pc = "none"}
FreeInvs == {i \in InvIds : invs[i].pc = "none"}

\* `if (!this.processing) this.startProcessing()` at the end of addEmbeddingJob
StartIfNeeded ==
    IF processing
    THEN UNCHANGED <<processing, loops>>
    ELSE /\ FreeLoops # {}
         /\ processing' = TRUE
         /\ LET l == CHOOSE x \in FreeLoops : \A y \in FreeLoops : x <= y
            IN  loops' = [loops EXCEPT ![l] =
                            [pc |-> LoopTop(TRUE, activeJobs, concurrency)]]

QueueInit ==
    /\ jobs = [j \in JobIds |-> NoRow]
    /\ nextJob = 1
    /\ processing = FALSE
    /\ concurrency = DefaultConcurrency
    /\ activeJobs = {}
    /\ adds = [c \in Callers |-> IdleAdd]
    /\ loops = [l \in LoopIds |-> NoLoop]
    /\ invs = [i \in InvIds |-> NoInv]

(***************************************************************************)
(* addEmbeddingJob                                                         *)
(***************************************************************************)
\* the existing-job query and the code up to the next await
AddCheck(c, d, p) ==
    /\ UNCHANGED <<evars, xvars>>
    /\ adds[c].pc = "idle"
    /\ LET existingJob == Single(ActiveJobsOf(d))
       IN  adds' = [adds EXCEPT ![c] =
              IF existingJob # 0
              THEN IdleAdd
              ELSE [pc |-> "create", doc |-> d, priority |-> p, job |-> 0]]
    /\ UNCHANGED <<jobs, nextJob, processing, concurrency, activeJobs, loops, invs>>

\* processDocumentChunks takes effect; then the priority update is issued,
\* or the call finishes
AddCreate(c) ==
    /\ UNCHANGED <<evars, xvars>>
    /\ adds[c].pc = "create"
    /\ nextJob <= MaxJobs
    /\ jobs' = [jobs EXCEPT ![nextJob] = ProcessDocumentChunks(adds[c].doc)]
    /\ nextJob' = nextJob + 1
    /\ IF adds[c].priority # "normal"
       THEN /\ adds' = [adds EXCEPT ![c].pc = "prio", ![c].job = nextJob]
            /\ UNCHANGED <<processing, loops>>
       ELSE /\ adds' = [adds EXCEPT ![c] = IdleAdd]
            /\ StartIfNeeded
    /\ UNCHANGED <<concurrency, activeJobs, invs>>

\* updateJobPriority takes effect; the call finishes
AddPrio(c) ==
    /\ UNCHANGED <<evars, xvars>>
    /\ adds[c].pc = "prio"
    /\ LET j == adds[c].job
       IN  jobs' = IF jobs[j].status = "none" THEN jobs
                   ELSE [jobs EXCEPT ![j].priority = adds[c].priority]
    /\ adds' = [adds EXCEPT ![c] = IdleAdd]
    /\ StartIfNeeded
    /\ UNCHANGED <<nextJob, concurrency, activeJobs, invs>>

(***************************************************************************)
(* startProcessing / processJob                                            *)
(***************************************************************************)
\* getNextJob answers; no job: sleep 5 s.  Otherwise processJob(job) runs up
\* to its first await (activeJobs.add, the 'processing' update is issued)
\* and the loop goes round to its next await.
LoopDequeue(l) ==
    /\ UNCHANGED <<evars, xvars>>
    /\ loops[l].pc = "fetching"
    /\ LET j == GetNextJob
       IN  IF j = 0
           THEN /\ loops' = [loops EXCEPT ![l].pc = "sleep"]
                /\ UNCHANGED <<activeJobs, invs>>
           ELSE /\ FreeInvs # {}
                /\ LET i == CHOOSE x \in FreeInvs : \A y \in FreeInvs : x <= y
                   IN  invs' = [invs EXCEPT ![i] =
                          [pc |-> "markProcessing", job |-> j,
                           doc |-> jobs[j].document_id,
                           retry_count |-> jobs[j].retry_count, idx |-> 0]]
                /\ activeJobs' = activeJobs \cup {j}
                /\ loops' = [loops EXCEPT ![l].pc =
                        LoopTop(processing, activeJobs \cup {j}, concurrency)]
    /\ UNCHANGED <<jobs, nextJob, processing, concurrency, adds>>

\* a delay ends; `continue`
LoopWake(l) ==
    /\ UNCHANGED <<evars, xvars>>
    /\ loops[l].pc = "sleep"
    /\ loops' = [loops EXCEPT ![l].pc = LoopTop(processing, activeJobs, concurrency)]
    /\ UNCHANGED <<jobs, nextJob, processing, concurrency, activeJobs, adds, invs>>

UpdateRow(j, row) == IF jobs[j].status = "none" THEN jobs ELSE [jobs EXCEPT ![j] = row]

\* a processJob that ends without its `finally`
FinishKeepingTheSlot(i) ==
    /\ UNCHANGED activeJobs
    /\ invs' = [invs EXCEPT ![i] = NoInv]

\* the `finally` of processJob
Finish(i) ==
    /\ activeJobs' = activeJobs \ {invs[i].job}
    /\ invs' = [invs EXCEPT ![i] = NoInv]

\* update {status: 'processing'} takes effect; the chunk query is issued
InvMarkProcessing(i) ==
    /\ UNCHANGED <<evars, xvars>>
    /\ invs[i].pc = "markProcessing"
    /\ jobs' = UpdateRow(invs[i].job, [jobs[invs[i].job] EXCEPT !.status = "processing"])
    /\ invs' = [invs EXCEPT ![i].pc = "loadChunks"]
    /\ UNCHANGED <<nextJob, processing, concurrency, activeJobs, adds, loops>>

\* the chunk query answers: an error or no rows throws into the catch
\* block (the 'failed' update is issued), otherwise processBatchEmbeddings
\* starts
InvLoadChunks(i, ok) ==
    /\ UNCHANGED <<evars, xvars>>
    /\ invs[i].pc = "loadChunks"
    /\ invs' = [invs EXCEPT ![i].pc =
           IF ok /\ DocChunks(invs[i].doc) > 0 THEN "batch" ELSE "markFailed"]
    /\ UNCHANGED <<jobs, nextJob, processing, concurrency, activeJobs, adds, loops>>

\* embeddingProcessor.processBatchEmbeddings, one chunk: the chunk's
\* embedding succeeds (processed_chunks + 1) or fails (failed_chunks + 1)
InvBatchChunk(i, ok) ==
    /\ UNCHANGED <<evars, xvars>>
    /\ invs[i].pc = "batch"
    /\ invs[i].idx < DocChunks(invs[i].doc)
    /\ LET j == invs[i].job
       IN  /\ jobs[j].processed_chunks + jobs[j].failed_chunks
                  < jobs[j].total_chunks + MaxOverrun
           /\ jobs' = UpdateRow(j,
                  IF ok
                  THEN [jobs[j] EXCEPT !.processed_chunks = @ + 1]
                  ELSE [jobs[j] EXCEPT !.failed_chunks = @ + 1])
    /\ invs' = [invs EXCEPT ![i].idx = @ + 1]
    /\ UNCHANGED <<nextJob, processing, concurrency, activeJobs, adds, loops>>

\* processBatchEmbeddings throws as a whole
InvBatchThrow(i) ==
    /\ UNCHANGED <<evars, xvars>>
    /\ invs[i].pc = "batch"
    /\ invs' = [invs EXCEPT ![i].pc = "markFailed"]
    /\ UNCHANGED <<jobs, nextJob, processing, concurrency, activeJobs, adds, loops>>

\* processBatchEmbeddings ends: the job is completed; processJob returns
InvBatchDone(i) ==
    /\ UNCHANGED <<evars, xvars>>
    /\ invs[i].pc = "batch"
    /\ invs[i].idx = DocChunks(invs[i].doc)
    /\ jobs' = UpdateRow(invs[i].job, [jobs[invs[i].job] EXCEPT !.status = "completed"])
    /\ Finish(i)
    /\ UNCHANGED <<nextJob, processing, concurrency, adds, loops>>

\* catch: update {status: 'failed', retry_count: job.retry_count + 1} takes
\* effect; then `if (job.retry_count < 3)` retryJob issues its update
InvMarkFailed(i) ==
    /\ UNCHANGED <<evars, xvars>>
    /\ invs[i].pc = "markFailed"
    /\ jobs' = UpdateRow(invs[i].job,
           [jobs[invs[i].job] EXCEPT !.status = "failed",
                                     !.retry_count = invs[i].retry_count + 1])
    /\ IF invs[i].retry_count < RetryCeiling
       THEN /\ invs' = [invs EXCEPT ![i].pc = "retry"]
            /\ UNCHANGED activeJobs
       ELSE Finish(i)
    /\ UNCHANGED <<nextJob, processing, concurrency, adds, loops>>

\* the delay of retryJob, in minutes
RetryDelay == 1
MaxQueueMinutes == 2

RetryClockInit ==
    /\ queueNow = 0
    /\ scheduledAt = [j \in JobIds |-> 0]

\* the documents of the jobs: processed, so that embedding jobs are added
DocumentsInit ==
    documents = [d \in Docs |-> [processing_status |-> "completed",
                                 processing_error |-> "null"]]

\* retryJob: scheduledAt is computed (and logged only); update
\* {status: 'pending', ...} takes effect; processJob returns
InvRetry(i) ==
    /\ UNCHANGED <<evars, bvars, svars, mvars, hvars, cvars, dvars, tvars,
                   gvars, lvars, ivars, pvars, queueNow, documents>>
    /\ invs[i].pc = "retry"
    /\ scheduledAt' = [scheduledAt EXCEPT
                          ![invs[i].job] = queueNow + RetryDelay]
    /\ jobs' = UpdateRow(invs[i].job, [jobs[invs[i].job] EXCEPT !.status = "pending"])
    /\ Finish(i)
    /\ UNCHANGED <<nextJob, processing, concurrency, adds, loops>>

\* a minute passes
QueueTick ==
    /\ UNCHANGED <<qvars, evars, bvars, svars, mvars, hvars, cvars, dvars,
                   tvars, gvars, lvars, ivars, pvars>>
    /\ queueNow < MaxQueueMinutes
    /\ queueNow' = queueNow + 1
    /\ UNCHANGED <<scheduledAt, documents>>

(***************************************************************************)
(* The other public operations                                             *)
(***************************************************************************)
PrioritizeUrgentJobs(ds) ==
    /\ UNCHANGED <<evars, xvars>>
    /\ jobs' = [j \in JobIds |->
           IF jobs[j].status = "pending" /\ jobs[j].document_id \in ds
           THEN [jobs[j] EXCEPT !.priority = "high"]
           ELSE jobs[j]]
    /\ jobs' # jobs
    /\ UNCHANGED <<nextJob, processing, concurrency, activeJobs, adds, loops, invs>>

CancelJob(j) ==
    /\ UNCHANGED <<evars, xvars>>
    /\ jobs[j].status \notin {"none", "cancelled"}
    /\ jobs' = [jobs EXCEPT ![j].status = "cancelled"]
    /\ UNCHANGED <<nextJob, processing, concurrency, activeJobs, adds, loops, invs>>

ClearFailedJobs ==
    /\ UNCHANGED <<evars, xvars>>
    /\ \E j \in Rows : jobs[j].status = "failed"
    /\ jobs' = [j \in JobIds |-> IF jobs[j].status = "failed" THEN NoRow ELSE jobs[j]]
    /\ UNCHANGED <<nextJob, processing, concurrency, activeJobs, adds, loops, invs>>

StopProcessing ==
    /\ UNCHANGED <<evars, xvars>>
    /\ processing
    /\ processing' = FALSE
    /\ UNCHANGED <<jobs, nextJob, concurrency, activeJobs, adds, loops, invs>>

Max(a, b) == IF a >= b THEN a ELSE b
Min(a, b) == IF a <= b THEN a ELSE b

Clamp(n) == Max(MinConcurrency, Min(MaxConcurrency, n))

SetConcurrency(n) ==
    /\ UNCHANGED <<evars, xvars>>
    /\ concurrency' = Clamp(n)
    /\ concurrency' # concurrency
    /\ UNCHANGED <<jobs, nextJob, processing, activeJobs, adds, loops, invs>>

ConcurrencyInputs == {0, 1, 2, 3}

(***************************************************************************)
(* GeminiEmbeddingService                                                  *)
(***************************************************************************)
NumEmbedCallers == 1
MaxUsage == 2

EmbedCallers == 1..NumEmbedCallers

Dimensions == 768
MaxRetries == 3
MaxChunkSize == 8192
RetryDelayMs == 4000

\* options.rate_limit.requests_per_minute as configured (15 by default)
RequestsPerMinute == 2

\* characters: letters, white space (SP, NL) and a control character (BEL);
\* all of them are left alone by NFKC normalisation
WhiteSpace == {"SP", "NL"}
ControlChars == {"BEL"}

\* the request texts the model enumerates
TextInputs == {<<"NL">>, <<"a">>, <<"SP", "NL", "a">>, <<"BEL", "SP", "BEL">>}

RECURSIVE CollapseWs(_)
\* replace(/\s+/g, ' ')
CollapseWs(s) ==
    IF s = <<>> THEN <<>>
    ELSE IF Head(s) \in WhiteSpace
         THEN IF Len(s) > 1 /\ s[2] \in WhiteSpace
              THEN CollapseWs(Tail(s))
              ELSE <<"SP">> \o CollapseWs(Tail(s))
         ELSE <<Head(s)>> \o CollapseWs(Tail(s))

RECURSIVE TrimLeft(_)
TrimLeft(s) ==
    IF s # <<>> /\ Head(s) \in WhiteSpace THEN TrimLeft(Tail(s)) ELSE s

RECURSIVE TrimRight(_)
TrimRight(s) ==
    IF s # <<>> /\ s[Len(s)] \in WhiteSpace
    THEN TrimRight(SubSeq(s, 1, Len(s) - 1)) ELSE s

Trim(s) == TrimRight(TrimLeft(s))

IsNotControl(ch) == ch \notin ControlChars

\* lastIndexOf(' '), 1-based; 0 when there is none
LastSpace(s) ==
    LET at == {k \in 1..Len(s) : s[k] = "SP"}
    IN  IF at = {} THEN 0 ELSE CHOOSE k \in at : \A m \in at : m <= k

\* truncation to max_chunk_size, at a word boundary in the last 20 %
Truncate(s) ==
    IF Len(s) <= MaxChunkSize THEN s
    ELSE LET cut == SubSeq(s, 1, MaxChunkSize)
             sp == LastSpace(cut)
         IN  IF (sp - 1) * 10 > Len(cut) * 8 THEN SubSeq(cut, 1, sp - 1) ELSE cut

PreprocessText(t) ==
    Truncate(SelectSeq(Trim(CollapseWs(t)), IsNotControl))

\* sha256 of the processed text: one digest per text
GenerateContentHash(text) == <<"sha256", text>>

CacheKeys == {GenerateContentHash(PreprocessText(t)) : t \in TextInputs}

NoEntry == [embedding |-> <<>>, model_version |-> "", usage_count |-> 0]

\* what the provider answers to embedContent(text) when it answers well
ProviderVector(text) == [dimensions |-> Dimensions, of |-> text]

ProviderOutcomes == {"ok", "empty", "baddim", "ratelimit", "error"}

\* Math.ceil(text.length / 4)
EstimateTokens(text) == (Len(text) + 3) \div 4

NoResult == [status |-> "none", cached |-> FALSE, embedding |-> <<>>, code |-> "",
             message |-> ""]

IdleCall == [pc |-> "idle", processed |-> <<>>,
             cache_result |-> TRUE, data |-> NoEntry, embedding |-> <<>>,
             attempt |-> 0, provider_calls |-> 0, rate_limited |-> 0,
             waits |-> <<>>, lastError |-> "", result |-> NoResult]

\* a finished call keeps what the caller sees: the request and the response
Finished(call, res) ==
    [IdleCall EXCEPT !.processed = call.processed,
                     !.cache_result = call.cache_result,
                     !.provider_calls = call.provider_calls, !.result = res]

\* getCachedEmbedding, the select: the row of the text's digest, or null
GetCachedEmbedding(text) == cache[GenerateContentHash(text)]

\* a cacheEmbedding whose upsert never reaches the table
CacheEmbeddingLost(text, embedding) == cache

\* cacheEmbedding: upsert on content_hash
CacheEmbedding(text, embedding) ==
    [cache EXCEPT ![GenerateContentHash(text)] =
        [embedding |-> embedding, model_version |-> "text-embedding-004",
         usage_count |-> 1]]

EmbedInit ==
    /\ cache = [h \in CacheKeys |-> NoEntry]
    /\ calls = [c \in EmbedCallers |-> IdleCall]
    /\ rlPoints = 0
    /\ tracking = {}

\* a generateEmbedding without the INVALID_TEXT check
GenStartUnchecked(c, t, cr) ==
    /\ UNCHANGED <<qvars, xvars>>
    /\ calls[c].pc = "idle"
    /\ LET processedText == PreprocessText(t)
           req == [IdleCall EXCEPT !.processed = processedText,
                                   !.cache_result = cr]
       IN  calls' = [calls EXCEPT ![c] =
              IF cr /\ GetCachedEmbedding(processedText).usage_count # 0
              THEN [req EXCEPT !.pc = "touch",
                               !.data = GetCachedEmbedding(processedText)]
              ELSE [req EXCEPT !.pc = "ratelimit"]]
    /\ UNCHANGED <<cache, rlPoints, tracking>>

\* generateEmbedding up to its first await: preprocessing, the INVALID_TEXT
\* check, and the cache select (or, with caching off, the rate limiter)
GenStart(c, t, cr) ==
    /\ UNCHANGED <<qvars, xvars>>
    /\ calls[c].pc = "idle"
    /\ LET processedText == PreprocessText(t)
           req == [IdleCall EXCEPT !.processed = processedText,
                                   !.cache_result = cr]
       IN  calls' = [calls EXCEPT ![c] =
              IF processedText = <<>>
              THEN Finished(req, [NoResult EXCEPT !.status = "error",
                                                  !.code = "INVALID_TEXT"])
              ELSE IF cr
                   THEN LET cached == GetCachedEmbedding(processedText)
                        IN  IF cached.usage_count # 0
                            THEN [req EXCEPT !.pc = "touch", !.data = cached]
                            ELSE [req EXCEPT !.pc = "ratelimit"]
                   ELSE [req EXCEPT !.pc = "ratelimit"]]
    /\ UNCHANGED <<cache, rlPoints, tracking>>

\* the cache hit: usage_count is written back as data.usage_count + 1 and
\* the cached row is returned
GenTouch(c) ==
    /\ UNCHANGED <<qvars, xvars>>
    /\ calls[c].pc = "touch"
    /\ calls[c].data.usage_count < MaxUsage
    /\ LET h == GenerateContentHash(calls[c].processed)
       IN  cache' = [cache EXCEPT ![h].usage_count = calls[c].data.usage_count + 1]
    /\ calls' = [calls EXCEPT ![c] =
           Finished(calls[c], [status |-> "ok", cached |-> TRUE,
                               embedding |-> calls[c].data.embedding,
                               code |-> "", message |-> ""])]
    /\ UNCHANGED <<rlPoints, tracking>>

\* rateLimiter.consume: resolved while the points consumed in the window,
\* this one included, do not exceed the limit; rejected otherwise
Consumed(points) == points + 1 <= RequestsPerMinute

\* checkRateLimit: consume one point; a rejection is waited out and
\* checkRateLimit returns; then the first provider call is issued
GenRateLimit(c) ==
    /\ UNCHANGED <<qvars, xvars>>
    /\ calls[c].pc = "ratelimit"
    /\ rlPoints' = IF rlPoints <= RequestsPerMinute THEN rlPoints + 1 ELSE rlPoints
    /\ calls' = [calls EXCEPT ![c].pc = "provider", ![c].attempt = 1,
                              ![c].provider_calls = 1]
    /\ UNCHANGED <<cache, tracking>>

\* the limiter's window (60 s) ends
RateWindowEnds ==
    /\ UNCHANGED <<qvars, xvars>>
    /\ rlPoints > 0
    /\ rlPoints' = 0
    /\ UNCHANGED <<cache, calls, tracking>>

\* a backoff that does not grow
BackoffFlat(attempt) == RetryDelayMs

\* the exponential backoff after a failed attempt
Backoff(attempt) == RetryDelayMs * 2^(attempt - 1)

\* the for loop's attempt++ and its test attempt <= max_retries: the next
\* provider call is issued, or the loop is left
NextAttempt(call) ==
    IF call.attempt + 1 <= MaxRetries
    THEN [call EXCEPT !.attempt = @ + 1, !.provider_calls = @ + 1]
    ELSE [call EXCEPT !.attempt = @ + 1, !.pc = "giveup"]

\* generateEmbeddingWithRetry, one provider answer: a vector of 768
\* components is returned; anything else is caught.  A rate-limit error is
\* waited out and followed by continue; any other error breaks on the last
\* attempt and is backed off otherwise
GenProvider(c, outcome) ==
    /\ UNCHANGED <<qvars, xvars>>
    /\ calls[c].pc = "provider"
    /\ calls' = [calls EXCEPT ![c] =
           IF outcome = "ok"
           THEN [calls[c] EXCEPT !.embedding = ProviderVector(calls[c].processed),
                                 !.pc = IF calls[c].cache_result THEN "store"
                                        ELSE "track"]
           ELSE LET failed == [calls[c] EXCEPT !.lastError = outcome]
                IN  IF outcome = "ratelimit"
                    THEN NextAttempt([failed EXCEPT
                             !.rate_limited = @ + 1,
                             !.waits = Append(@, RetryDelayMs)])
                    ELSE IF failed.attempt = MaxRetries
                         THEN [failed EXCEPT !.pc = "giveup"]
                         ELSE NextAttempt([failed EXCEPT
                                  !.waits = Append(@, Backoff(failed.attempt))])]
    /\ UNCHANGED <<cache, rlPoints, tracking>>

\* throw lastError, wrapped by generateEmbedding's catch
GenGiveUp(c) ==
    /\ UNCHANGED <<qvars, xvars>>
    /\ calls[c].pc = "giveup"
    /\ calls' = [calls EXCEPT ![c] =
           Finished(calls[c], [NoResult EXCEPT !.status = "error",
                                               !.code = "GENERATION_FAILED",
                                               !.message = calls[c].lastError])]
    /\ UNCHANGED <<cache, rlPoints, tracking>>

\* cacheEmbedding takes effect
GenStore(c) ==
    /\ UNCHANGED <<qvars, xvars>>
    /\ calls[c].pc = "store"
    /\ cache' = CacheEmbedding(calls[c].processed, calls[c].embedding)
    /\ calls' = [calls EXCEPT ![c].pc = "track"]
    /\ UNCHANGED <<rlPoints, tracking>>

\* trackUsage takes effect; the response is returned
GenTrack(c) ==
    /\ UNCHANGED <<qvars, xvars>>
    /\ calls[c].pc = "track"
    /\ tracking' = tracking \cup {[requests_count |-> 1,
                                   tokens_used |-> EstimateTokens(calls[c].processed)]}
    /\ calls' = [calls EXCEPT ![c] =
           Finished(calls[c], [status |-> "ok", cached |-> FALSE,
                               embedding |-> calls[c].embedding,
                               code |-> "", message |-> ""])]
    /\ UNCHANGED <<cache, rlPoints>>

\* the steps of caller c's generateEmbedding, the provider answering with
\* one of the given outcomes
CallStep(c, outcomes) ==
    \/ \E t \in TextInputs, cr \in BOOLEAN : GenStart(c, t, cr)
    \/ GenTouch(c)
    \/ GenRateLimit(c)
    \/ \E o \in outcomes : GenProvider(c, o)
    \/ GenGiveUp(c)
    \/ GenStore(c)
    \/ GenTrack(c)

EmbedNext ==
    \/ \E c \in EmbedCallers : CallStep(c, ProviderOutcomes)
    \/ RateWindowEnds

(***************************************************************************)
(* GeminiEmbeddingService.generateBatchEmbeddings                          *)
(***************************************************************************)
\* options.batch_size as configured (10 by default)
BatchSize == 2
MaxTexts == 3

BatchTexts == {<<"a">>, <<"b">>}

\* the texts arrays the model enumerates
TextArrays == UNION {[1..n -> BatchTexts] : n \in 0..MaxTexts}

\* createBatches: the number of slices of batchSize items
BatchCount(texts) == (Len(texts) + BatchSize - 1) \div BatchSize

\* createBatches: slice number i, counted from 0
BatchAt(texts, i) ==
    SubSeq(texts, i * BatchSize + 1,
           IF (i + 1) * BatchSize < Len(texts) THEN (i + 1) * BatchSize
           ELSE Len(texts))

\* how a generateEmbedding promise of the batch settles
Settlements == {"fulfilled", "rejected"}

\* what generateEmbedding resolves to
FulfilledValue(text) ==
    [embedding |-> ProviderVector(text), dimensions |-> Dimensions,
     cached |-> FALSE, metadata |-> [error |-> ""]]

\* the object pushed for a rejected promise
ErrorPlaceholder(reason) ==
    [embedding |-> <<>>, dimensions |-> 0,
     cached |-> FALSE, metadata |-> [error |-> reason]]

\* the results pushed for one batch, given how each promise settled
RECURSIVE SettledResults(_, _)
SettledResults(items, outs) ==
    IF items = <<>> THEN <<>>
    ELSE <<IF Head(outs) = "fulfilled"
           THEN FulfilledValue(PreprocessText(Head(items)))
           ELSE ErrorPlaceholder("GENERATION_FAILED")>>
         \o SettledResults(Tail(items), Tail(outs))

IdleBatch == [pc |-> "idle", texts |-> <<>>, i |-> 0, results |-> <<>>]

BatchInit == batch = IdleBatch

\* generateBatchEmbeddings up to the first Promise.allSettled; with no
\* texts there is no batch and the empty results are returned at once
GenBatchStart(texts) ==
    /\ UNCHANGED <<qvars, evars, svars, mvars, hvars, zvars>>
    /\ batch.pc = "idle"
    /\ batch' = [pc |-> IF BatchCount(texts) = 0 THEN "idle" ELSE "settle",
                 texts |-> texts, i |-> 0, results |-> <<>>]

\* the promises of batch i have settled: one result is pushed per item;
\* then the delay between batches starts, or the results are returned
GenBatchSettle(outs) ==
    /\ UNCHANGED <<qvars, evars, svars, mvars, hvars, zvars>>
    /\ batch.pc = "settle"
    /\ LET items == BatchAt(batch.texts, batch.i)
       IN  /\ DOMAIN outs = 1..Len(items)
           /\ batch' = [batch EXCEPT
                  !.results = @ \o SettledResults(items, outs),
                  !.pc = IF batch.i < BatchCount(batch.texts) - 1
                         THEN "delay" ELSE "idle"]

\* delay(retry_delay_ms) is over: the next batch is started
GenBatchDelay ==
    /\ UNCHANGED <<qvars, evars, svars, mvars, hvars, zvars>>
    /\ batch.pc = "delay"
    /\ batch' = [batch EXCEPT !.i = @ + 1, !.pc = "settle"]

BatchNext ==
    \/ \E texts \in TextArrays : GenBatchStart(texts)
    \/ \E outs \in UNION {[1..n -> Settlements] : n \in 1..BatchSize} :
           GenBatchSettle(outs)
    \/ GenBatchDelay

(***************************************************************************)
(* RateLimiter.updateRateLimitStats                                        *)
(***************************************************************************)
NumUpdaters == 2
MaxUpdates == 3

Updaters == 1..NumUpdaters

\* the tokensUsed arguments the model enumerates (requestCount is 1)
TokenInputs == {0, 2}

IdleUp == [pc |-> "idle", existing |-> 0, requests_count |-> 0,
           tokens_used |-> 0, requestCount |-> 0, tokensUsed |-> 0]

StatsInit ==
    /\ stats = <<>>
    /\ ups = [u \in Updaters |-> IdleUp]
    /\ applied = [calls |-> 0, requests |-> 0, tokens |-> 0]

\* the calls started so far
StartedUpdates ==
    applied.calls + Cardinality({u \in Updaters : ups[u].pc # "idle"})

\* the call returns: its increments count as applied
Returned(u) ==
    applied' = [calls |-> applied.calls + 1,
                requests |-> applied.requests + ups[u].requestCount,
                tokens |-> applied.tokens + ups[u].tokensUsed]

\* updateRateLimitStats up to the answer of its select: the window's record
\* is read with .single(); no row, or more than one, gives existing = null
StatsSelect(u, requestCount, tokensUsed) ==
    /\ UNCHANGED <<qvars, evars, bvars, mvars, hvars, zvars>>
    /\ ups[u].pc = "idle"
    /\ StartedUpdates < MaxUpdates
    /\ LET existing == Single(DOMAIN stats)
       IN  ups' = [ups EXCEPT ![u] =
               IF existing # 0
               THEN [pc |-> "update", existing |-> existing,
                     requests_count |-> stats[existing].requests_count,
                     tokens_used |-> stats[existing].tokens_used,
                     requestCount |-> requestCount, tokensUsed |-> tokensUsed]
               ELSE [IdleUp EXCEPT !.pc = "insert",
                                   !.requestCount = requestCount,
                                   !.tokensUsed = tokensUsed]]
    /\ UNCHANGED <<stats, applied>>

\* the update of the existing record, from the values read by the select
StatsUpdate(u) ==
    /\ UNCHANGED <<qvars, evars, bvars, mvars, hvars, zvars>>
    /\ ups[u].pc = "update"
    /\ stats' = [stats EXCEPT ![ups[u].existing] =
           [requests_count |-> ups[u].requests_count + ups[u].requestCount,
            tokens_used |-> ups[u].tokens_used + ups[u].tokensUsed]]
    /\ Returned(u)
    /\ ups' = [ups EXCEPT ![u] = IdleUp]

\* the insert of a new record (its reset_time differs from the others')
StatsInsert(u) ==
    /\ UNCHANGED <<qvars, evars, bvars, mvars, hvars, zvars>>
    /\ ups[u].pc = "insert"
    /\ stats' = Append(stats, [requests_count |-> ups[u].requestCount,
                               tokens_used |-> ups[u].tokensUsed])
    /\ Returned(u)
    /\ ups' = [ups EXCEPT ![u] = IdleUp]

StatsNext ==
    \/ \E u \in Updaters, tk \in TokenInputs : StatsSelect(u, 1, tk)
    \/ \E u \in Updaters : StatsUpdate(u)
    \/ \E u \in Updaters : StatsInsert(u)

(***************************************************************************)
(* middleware: rateLimitMiddleware and checkRateLimit                      *)
(***************************************************************************)
MaxMinutes == 2

MinuteMs == 60 * 1000

GlobalLimit == 100
AuthLimit == 5
UploadLimit == 10

\* request paths, as their segments
AuthUrl == <<"api", "auth", "login">>
DocumentsUrl == <<"api", "documents">>
UploadUrl == <<"api", "documents", "upload">>
Urls == {AuthUrl, DocumentsUrl, UploadUrl}

ClientIP == "ip1"

\* url.startsWith(prefix), on segments
StartsWith(url, prefix) ==
    Len(url) >= Len(prefix) /\ SubSeq(url, 1, Len(prefix)) = prefix

LimitOf(url) ==
    IF StartsWith(url, <<"api", "auth">>) THEN AuthLimit
    ELSE IF StartsWith(url, UploadUrl) THEN UploadLimit
    ELSE GlobalLimit

WindowMsOf(url) ==
    IF StartsWith(url, <<"api", "auth">>) THEN MinuteMs
    ELSE IF StartsWith(url, UploadUrl) THEN 60 * MinuteMs
    ELSE 15 * MinuteMs

\* `${clientIP}:${url.split('/').slice(0, 3).join('/')}`: the split of
\* "/api/x/y" starts with an empty string, so two segments are kept
KeyOf(url) == <<ClientIP, SubSeq(url, 1, Min(2, Len(url)))>>

Keys == {KeyOf(url) : url \in Urls}

NoRecord == [count |-> 0, resetTime |-> 0]

\* a checkRateLimit that lets one request too many through
CheckRateLimitOffByOne(store, key, limit, windowMs) ==
    LET record == store[key]
    IN  IF record.count = 0 \/ now > record.resetTime
        THEN [allowed |-> TRUE,
              store |-> [store EXCEPT ![key] =
                            [count |-> 1, resetTime |-> now + windowMs]]]
        ELSE IF record.count > limit
             THEN [allowed |-> FALSE, store |-> store]
             ELSE [allowed |-> TRUE,
                   store |-> [store EXCEPT ![key].count = @ + 1]]

\* checkRateLimit: its result and the store it leaves
CheckRateLimit(store, key, limit, windowMs) ==
    LET record == store[key]
    IN  IF record.count = 0 \/ now > record.resetTime
        THEN [allowed |-> TRUE,
              store |-> [store EXCEPT ![key] =
                            [count |-> 1, resetTime |-> now + windowMs]]]
        ELSE IF record.count >= limit
             THEN [allowed |-> FALSE, store |-> store]
             ELSE [allowed |-> TRUE,
                   store |-> [store EXCEPT ![key].count = @ + 1]]

MiddlewareInit ==
    /\ rateLimitStore = [k \in Keys |-> NoRecord]
    /\ now = 0
    /\ response = [url |-> <<>>, status |-> "none", seq |-> 0]
    /\ admitted = [window |-> [k \in Keys |-> 0], uploaded |-> FALSE]

\* rateLimitMiddleware answers one request (it never awaits)
RateLimitMiddleware(url) ==
    /\ UNCHANGED <<qvars, evars, bvars, svars, hvars, zvars>>
    /\ LET key == KeyOf(url)
           fresh == rateLimitStore[key].count = 0
                        \/ now > rateLimitStore[key].resetTime
           res == CheckRateLimit(rateLimitStore, key, LimitOf(url),
                                 WindowMsOf(url))
       IN  /\ rateLimitStore' = res.store
           /\ response' = [url |-> url,
                           status |-> IF res.allowed THEN "next" ELSE "429",
                           seq |-> 1 - response.seq]
           /\ admitted' =
                 [window |-> [admitted.window EXCEPT ![key] =
                                 IF ~res.allowed THEN @
                                 ELSE IF fresh THEN 1 ELSE @ + 1],
                  uploaded |-> admitted.uploaded
                                  \/ (res.allowed /\ url = UploadUrl)]
    /\ UNCHANGED now

\* a minute passes
Tick ==
    /\ UNCHANGED <<qvars, evars, bvars, svars, hvars, zvars>>
    /\ now < MaxMinutes * MinuteMs
    /\ now' = now + MinuteMs
    /\ UNCHANGED <<rateLimitStore, response, admitted>>

MiddlewareNext ==
    \/ \E url \in Urls : RateLimitMiddleware(url)
    \/ Tick

\* one client using the documents endpoints only
DocumentsNext ==
    \/ \E url \in {DocumentsUrl, UploadUrl} : RateLimitMiddleware(url)
    \/ Tick

\* ------------------------------------------------------------------
\* Similarity search: ranking, and the hybrid search endpoint
\* ------------------------------------------------------------------

\* scores and distances are decimals in ten-thousandths, weights are
\* decimals in hundredths
ScoreOne == 10000
WeightOne == 100
MaxRows == 2
MaxResults == 3

SearchKeys == {<<"d1", 0>>, <<"d1", 1>>, <<"d2", 0>>}

\* documents.created_at, as a time
DocumentCreatedAt(document_id) == IF document_id = "d1" THEN 1 ELSE 2

\* the comparator of rankSearchResults with the tie broken oldest first
CompareResultsOldestFirst(a, b) ==
    IF a.similarity_score # b.similarity_score
    THEN b.similarity_score - a.similarity_score
    ELSE a.created_at - b.created_at

\* the comparator of rankSearchResults: negative when a goes first
CompareResults(a, b) ==
    IF a.similarity_score # b.similarity_score
    THEN b.similarity_score - a.similarity_score
    ELSE b.created_at - a.created_at

\* Array.prototype.sort is stable: r goes behind every element that the
\* comparator does not put behind it
RECURSIVE InsertResult(_, _)
InsertResult(sorted, r) ==
    IF sorted = <<>> THEN <<r>>
    ELSE IF CompareResults(Head(sorted), r) <= 0
         THEN <<Head(sorted)>> \o InsertResult(Tail(sorted), r)
         ELSE <<r>> \o sorted

RECURSIVE SortResults(_, _)
SortResults(sorted, rest) ==
    IF rest = <<>> THEN sorted
    ELSE SortResults(InsertResult(sorted, Head(rest)), Tail(rest))

RankSearchResults(results) == SortResults(<<>>, results)

\* the results the ranking is called with
RankScores == {4900, 6300}
RankElements ==
    {[key |-> k, similarity_score |-> sc, distance |-> ScoreOne - sc,
      created_at |-> DocumentCreatedAt(k[1])]
     : k \in SearchKeys, sc \in RankScores}
RankInputs == UNION {[1..n -> RankElements] : n \in 0..MaxResults}

RankingInit == ranking = [pc |-> "idle", results |-> <<>>, ranked |-> <<>>]

RankCall(results) ==
    /\ UNCHANGED <<qvars, evars, bvars, svars, mvars, zvars>>
    /\ ranking' = [pc |-> "returned", results |-> results,
                   ranked |-> RankSearchResults(results)]
    /\ UNCHANGED hybrid

RankNext == \E results \in RankInputs : RankCall(results)

\* the request bodies of the hybrid search; a field left out is undefined
HybridBodies ==
    {[query |-> <<"a">>],
     [query |-> <<"a">>, semantic_weight |-> 70, keyword_weight |-> 30],
     [query |-> <<"a">>, semantic_weight |-> 60, keyword_weight |-> 40],
     [query |-> <<"a">>, semantic_weight |-> 100, keyword_weight |-> 0],
     [query |-> <<"a">>, semantic_weight |-> 60, keyword_weight |-> 30],
     [query |-> <<"a">>, semantic_weight |-> 60],
     [query |-> <<"a">>, keyword_weight |-> 50],
     [query |-> <<"SP">>, semantic_weight |-> 60, keyword_weight |-> 30],
     [query |-> <<"a">>, semantic_weight |-> 70, keyword_weight |-> 20,
      limit |-> 101],
     [semantic_weight |-> 70, keyword_weight |-> 30]}

\* a destructured field with its default
FieldOr(body, field, default) ==
    IF field \in DOMAIN body THEN body[field] ELSE default

SemanticWeightOf(body) == FieldOr(body, "semantic_weight", 70)
KeywordWeightOf(body) == FieldOr(body, "keyword_weight", 30)
LimitOf100(body) == FieldOr(body, "limit", 20)

\* !query || typeof query !== 'string' || query.trim().length === 0
QueryMissing(body) ==
    \/ "query" \notin DOMAIN body
    \/ Trim(body.query) = <<>>

\* the rows the two queries can return: up to MaxRows chunks, each once
RowKeys ==
    {ks \in UNION {[1..n -> SearchKeys] : n \in 0..MaxRows} :
        \A i, j \in 1..Len(ks) : i # j => ks[i] # ks[j]}

SimilarityValues == {7000, 9000}

SemanticRowSets ==
    UNION {{[i \in 1..Len(ks) |-> [key |-> ks[i], similarity |-> sims[i]]]
            : sims \in [1..Len(ks) -> SimilarityValues]} : ks \in RowKeys}

\* searchSimilarity's mapping of a row of similarity_search
SemanticResult(record) ==
    [key |-> record.key,
     similarity_score |-> record.similarity,
     distance |-> ScoreOne - record.similarity,
     created_at |-> DocumentCreatedAt(record.key[1])]

\* keywordSearch's mapping of a row of document_chunks
KeywordResult(key) ==
    [key |-> key,
     similarity_score |-> 5000,
     distance |-> 5000,
     created_at |-> DocumentCreatedAt(key[1])]

Weighted(score, weight) == (score * weight) \div WeightOne

\* resultMap after the loop over the semantic results
RECURSIVE AddSemantic(_, _, _)
AddSemantic(resultMap, semanticResults, semanticWeight) ==
    IF semanticResults = <<>> THEN resultMap
    ELSE LET result == Head(semanticResults)
             entry == [result EXCEPT !.similarity_score =
                          Weighted(result.similarity_score, semanticWeight)]
             at == {i \in 1..Len(resultMap) : resultMap[i].key = result.key}
         IN AddSemantic(
                IF at = {} THEN Append(resultMap, entry)
                ELSE [resultMap EXCEPT ![CHOOSE i \in at : TRUE] = entry],
                Tail(semanticResults), semanticWeight)

\* resultMap after the loop over the keyword results
RECURSIVE AddKeyword(_, _, _)
AddKeyword(resultMap, keywordResults, keywordWeight) ==
    IF keywordResults = <<>> THEN resultMap
    ELSE LET result == Head(keywordResults)
             at == {i \in 1..Len(resultMap) : resultMap[i].key = result.key}
             added == Weighted(result.similarity_score, keywordWeight)
         IN AddKeyword(
                IF at = {}
                THEN Append(resultMap,
                            [result EXCEPT !.similarity_score = added])
                ELSE LET i == CHOOSE i \in at : TRUE
                         score == resultMap[i].similarity_score + added
                     IN [resultMap EXCEPT ![i].similarity_score = score,
                                          ![i].distance = ScoreOne - score],
                Tail(keywordResults), keywordWeight)

CombineSearchResults(semanticResults, keywordResults, semanticWeight, keywordWeight) ==
    AddKeyword(AddSemantic(<<>>, semanticResults, semanticWeight),
               keywordResults, keywordWeight)

IdleHybrid ==
    [pc |-> "idle", user |-> FALSE, body |-> [query |-> <<>>],
     executed |-> {}, semanticResults |-> <<>>, results |-> <<>>,
     status |-> 0, error |-> ""]

HybridInit == hybrid = IdleHybrid

HybridReject(user, body, status, error) ==
    [IdleHybrid EXCEPT !.pc = "done", !.user = user, !.body = body,
                       !.status = status, !.error = error]

\* the validation of the request without the check of the weights
HybridPostAnyWeights(user, body) ==
    /\ UNCHANGED <<qvars, evars, bvars, svars, mvars, zvars>>
    /\ hybrid.pc \in {"idle", "done"}
    /\ hybrid' =
          IF ~user THEN HybridReject(user, body, 401, "Unauthorized")
          ELSE IF QueryMissing(body)
          THEN HybridReject(user, body, 400, "Query is required")
          ELSE IF LimitOf100(body) > 100
          THEN HybridReject(user, body, 400, "Maximum limit is 100")
          ELSE [IdleHybrid EXCEPT !.pc = "semantic", !.user = user,
                                  !.body = body]
    /\ UNCHANGED ranking

\* POST up to the call of performHybridSearch
HybridPost(user, body) ==
    /\ UNCHANGED <<qvars, evars, bvars, svars, mvars, zvars>>
    /\ hybrid.pc \in {"idle", "done"}
    /\ hybrid' =
          IF ~user THEN HybridReject(user, body, 401, "Unauthorized")
          ELSE IF QueryMissing(body)
          THEN HybridReject(user, body, 400, "Query is required")
          ELSE IF LimitOf100(body) > 100
          THEN HybridReject(user, body, 400, "Maximum limit is 100")
          ELSE IF SemanticWeightOf(body) + KeywordWeightOf(body) # WeightOne
          THEN HybridReject(user, body, 400,
                            "Semantic and keyword weights must sum to 1")
          ELSE [IdleHybrid EXCEPT !.pc = "semantic", !.user = user,
                                  !.body = body]
    /\ UNCHANGED ranking

\* searchSimilarity: the rows of similarity_search, or an error that
\* the handler answers with status 500
HybridSemantic(ok, rows) ==
    /\ UNCHANGED <<qvars, evars, bvars, svars, mvars, zvars>>
    /\ hybrid.pc = "semantic"
    /\ hybrid' =
          IF ok
          THEN [hybrid EXCEPT
                   !.pc = "keyword",
                   !.executed = @ \cup {"semantic"},
                   !.semanticResults =
                       [i \in 1..Len(rows) |-> SemanticResult(rows[i])]]
          ELSE [hybrid EXCEPT !.pc = "done",
                              !.executed = @ \cup {"semantic"},
                              !.status = 500,
                              !.error = "Internal server error"]
    /\ UNCHANGED ranking

\* keywordSearch (an error yields no rows), combineSearchResults and
\* rankSearchResults
HybridKeyword(ok, keys) ==
    /\ UNCHANGED <<qvars, evars, bvars, svars, mvars, zvars>>
    /\ hybrid.pc = "keyword"
    /\ LET keywordWeight == IF KeywordWeightOf(hybrid.body) = 0 THEN 30
                            ELSE KeywordWeightOf(hybrid.body)
           semanticWeight == WeightOne - keywordWeight
           keywordResults ==
               IF ok THEN [i \in 1..Len(keys) |-> KeywordResult(keys[i])]
               ELSE <<>>
       IN hybrid' = [hybrid EXCEPT
                        !.pc = "log",
                        !.executed = @ \cup {"keyword"},
                        !.results = RankSearchResults(
                            CombineSearchResults(hybrid.semanticResults,
                                keywordResults, semanticWeight,
                                keywordWeight))]
    /\ UNCHANGED ranking

\* logSearchQuery, whose errors are swallowed, and the response
HybridRespond ==
    /\ UNCHANGED <<qvars, evars, bvars, svars, mvars, zvars>>
    /\ hybrid.pc = "log"
    /\ hybrid' = [hybrid EXCEPT !.pc = "done", !.status = 200]
    /\ UNCHANGED ranking

HybridNext ==
    \/ \E user \in BOOLEAN, body \in HybridBodies : HybridPost(user, body)
    \/ \E ok \in BOOLEAN, rows \in SemanticRowSets : HybridSemantic(ok, rows)
    \/ \E ok \in BOOLEAN, keys \in RowKeys : HybridKeyword(ok, keys)
    \/ HybridRespond


\* ------------------------------------------------------------------
\* The cache of search results (vector_search_cache)
\* ------------------------------------------------------------------
HourTicks == 2
MaxClock == 3

Owners == {"A", "B"}
QueryTexts == {"q1", "q2"}

\* the digest of the query text
QueryHash(query) == <<"sha256", query>>

\* the results of a search: chunks of the documents of its caller
ResultsOf(owner) == [owner |-> owner]
NoCachedResults == [owner |-> "null"]

\* upsert: the rows that agree with the payload on the conflict columns
\* are updated with the payload, and the payload is inserted when there
\* is none
Upsert(rows, conflict, payload) ==
    LET hit == {r \in rows : \A col \in conflict : r[col] = payload[col]}
    IN IF hit = {}
       THEN rows \cup {[col \in {"user_id", "query_hash", "search_results",
                                 "expires_at", "last_accessed"} |->
                           IF col \in DOMAIN payload THEN payload[col]
                           ELSE IF col = "user_id" THEN "null"
                           ELSE clock]}
       ELSE (rows \ hit) \cup
            {[col \in DOMAIN r |->
                 IF col \in DOMAIN payload THEN payload[col] ELSE r[col]]
             : r \in hit}

SearchCacheInit ==
    /\ searchCache = {}
    /\ clock = 0
    /\ lookup = [user |-> "null", query |-> "", at |-> 0,
                 returned |-> NoCachedResults, seq |-> 0]

restC == <<qvars, evars, bvars, svars, mvars, hvars, dvars, tvars, gvars, wvars, lvars, ivars, pvars>>

\* the client of the service is created once, without a request: with
\* the service key the policies of the tables do not apply and
\* auth.uid() is null; with the session of the caller the policies
\* apply and auth.uid() is the caller
Sessions == BOOLEAN

\* the policies of vector_search_cache: auth.uid() = user_id
VisibleRows(rows, user, session) ==
    IF session THEN {r \in rows : r.user_id = user} ELSE rows

\* SimilaritySearchService.cacheSearchResults: no owner is written and
\* the conflict is on query_hash; a refusal of the store is swallowed,
\* and under the policies a row without the caller as user_id is refused
CacheSearchResults(user, query, stored, session) ==
    /\ UNCHANGED restC
    /\ searchCache' =
          IF stored /\ ~session
          THEN Upsert(searchCache, {"query_hash"},
                      [query_hash |-> QueryHash(query),
                       search_results |-> ResultsOf(user),
                       expires_at |-> clock + HourTicks])
          ELSE searchCache
    /\ UNCHANGED <<clock, lookup>>

\* cacheSearchResults of the similarity route: the owner is written and
\* the conflict is on (user_id, query_hash)
RouteCacheSearchResults(user, query, stored) ==
    /\ UNCHANGED restC
    /\ searchCache' =
          IF stored
          THEN Upsert(searchCache, {"user_id", "query_hash"},
                      [user_id |-> user,
                       query_hash |-> QueryHash(query),
                       search_results |-> ResultsOf(user),
                       expires_at |-> clock + HourTicks])
          ELSE searchCache
    /\ UNCHANGED <<clock, lookup>>

\* the rows the select of getCachedSearchResults matches
LiveRowsAlsoExpiring(rows, query, at) ==
    {r \in rows : r.query_hash = QueryHash(query) /\ r.expires_at >= at}

LiveRows(rows, query, at) ==
    {r \in rows : r.query_hash = QueryHash(query) /\ r.expires_at > at}

\* SimilaritySearchService.getCachedSearchResults: single() yields the
\* row when exactly one matches; a hit refreshes last_accessed of the
\* rows of the query
GetCachedSearchResults(user, query, session) ==
    /\ UNCHANGED restC
    /\ LET data == LiveRows(VisibleRows(searchCache, user, session),
                            query, clock)
       IN IF Cardinality(data) = 1
          THEN /\ lookup' = [user |-> user, query |-> query, at |-> clock,
                             returned |->
                                 (CHOOSE r \in data : TRUE).search_results,
                             seq |-> 1 - lookup.seq]
               /\ searchCache' =
                     {IF /\ r.query_hash = QueryHash(query)
                         /\ r \in VisibleRows(searchCache, user, session)
                      THEN [r EXCEPT !.last_accessed = clock] ELSE r
                      : r \in searchCache}
          ELSE /\ lookup' = [user |-> user, query |-> query, at |-> clock,
                             returned |-> NoCachedResults,
                             seq |-> 1 - lookup.seq]
               /\ UNCHANGED searchCache
    /\ UNCHANGED clock

\* half an hour passes
ClockTick ==
    /\ UNCHANGED restC
    /\ clock < MaxClock
    /\ clock' = clock + 1
    /\ UNCHANGED <<searchCache, lookup>>

\* the cache written by the service and by the route, for one query
SearchCacheNext ==
    \/ \E user \in Owners, stored \in BOOLEAN, session \in Sessions :
          CacheSearchResults(user, "q1", stored, session)
    \/ \E user \in Owners, stored \in BOOLEAN :
          RouteCacheSearchResults(user, "q1", stored)
    \/ \E user \in Owners, session \in Sessions :
          GetCachedSearchResults(user, "q1", session)
    \/ ClockTick

\* the cache written and read through the service only
ServiceCacheNext ==
    \/ \E user \in Owners, query \in QueryTexts, stored \in BOOLEAN,
          session \in Sessions :
          CacheSearchResults(user, query, stored, session)
    \/ \E user \in Owners, query \in QueryTexts, session \in Sessions :
          GetCachedSearchResults(user, query, session)
    \/ ClockTick

\* ------------------------------------------------------------------
\* Semantic and keyword search over the store
\* ------------------------------------------------------------------
restD == <<qvars, evars, bvars, svars, mvars, hvars, cvars, tvars, gvars, wvars, lvars, ivars, pvars>>

\* documents.user_id
DocumentOwner(document_id) == IF document_id = "d1" THEN "A" ELSE "B"

NoEmbedding == [status |-> "none", similarity |-> 0]
EmbeddingStatuses == {"completed", "pending"}
Similarities == {5000, 9000}

\* similarity_threshold of a request; Absent when it is left out
Absent == 0 - 1
Thresholds == {Absent, 0, 6000, 9000}
DefaultThreshold == 7000

\* value || 0.7
OrDefault(value, default) ==
    IF value = Absent \/ value = 0 THEN default ELSE value

\* const { value = 0.7 } = body
Defaulted(value, default) == IF value = Absent THEN default ELSE value

SearchStoreInit ==
    /\ embeddings = [k \in SearchKeys |-> NoEmbedding]
    /\ found = [kind |-> "none", user |-> "null", threshold |-> Absent,
                results |-> <<>>]

\* the store gets or replaces the embedding of a chunk
StoreEmbeddingRow(key, status, similarity) ==
    /\ UNCHANGED restD
    /\ embeddings' = [embeddings EXCEPT
                         ![key] = [status |-> status,
                                   similarity |-> similarity]]
    /\ UNCHANGED found

\* the keys in descending order of similarity
RECURSIVE BySimilarity(_, _)
BySimilarity(keys, rows) ==
    IF keys = {} THEN <<>>
    ELSE LET top == CHOOSE k \in keys :
                        \A o \in keys : rows[k].similarity >= rows[o].similarity
         IN <<top>> \o BySimilarity(keys \ {top}, rows)

\* similarity_search without the test of the threshold
SimilaritySearchRpcUnfiltered(rows, uid, similarity_threshold) ==
    LET keys == {k \in SearchKeys :
                    /\ rows[k].status = "completed"
                    /\ DocumentOwner(k[1]) = uid}
        ordered == BySimilarity(keys, rows)
    IN [i \in 1..Len(ordered) |->
           [key |-> ordered[i], similarity |-> rows[ordered[i]].similarity]]

\* the function similarity_search of the store
SimilaritySearchRpc(rows, uid, similarity_threshold) ==
    LET keys == {k \in SearchKeys :
                    /\ rows[k].status = "completed"
                    /\ DocumentOwner(k[1]) = uid
                    /\ rows[k].similarity >= similarity_threshold}
        ordered == BySimilarity(keys, rows)
    IN [i \in 1..Len(ordered) |->
           [key |-> ordered[i], similarity |-> rows[ordered[i]].similarity]]

\* SimilaritySearchService.searchSimilarity; auth.uid() is the caller
\* when the client carries the caller's session and null otherwise
SearchSimilarity(user, threshold, session) ==
    /\ UNCHANGED restD
    /\ LET uid == IF session THEN user ELSE "null"
           data == SimilaritySearchRpc(embeddings, uid,
                                       OrDefault(threshold, DefaultThreshold))
       IN found' = [kind |-> "semantic", user |-> user,
                    threshold |-> threshold,
                    results |-> [i \in 1..Len(data) |->
                                    SemanticResult(data[i])]]
    /\ UNCHANGED embeddings

\* SimilaritySearchService.keywordSearch: the chunks whose content
\* matches, whoever owns them unless a policy of the store scopes them
KeywordSearch(user, matching, scoped) ==
    /\ UNCHANGED restD
    /\ LET keys == {k \in matching : scoped => DocumentOwner(k[1]) = user}
           ordered == BySimilarity(keys, [k \in SearchKeys |-> NoEmbedding])
       IN found' = [kind |-> "keyword", user |-> user, threshold |-> Absent,
                    results |-> [i \in 1..Len(ordered) |->
                                    KeywordResult(ordered[i])]]
    /\ UNCHANGED embeddings

\* POST of the similarity route: the completed embeddings of the
\* user's documents, filtered by the threshold and sorted
PostSimilarity(user, threshold) ==
    /\ UNCHANGED restD
    /\ LET similarity_threshold == Defaulted(threshold, DefaultThreshold)
           keys == {k \in SearchKeys :
                       /\ embeddings[k].status = "completed"
                       /\ DocumentOwner(k[1]) = user
                       /\ embeddings[k].similarity >= similarity_threshold}
           ordered == BySimilarity(keys, embeddings)
       IN found' = [kind |-> "route", user |-> user, threshold |-> threshold,
                    results |->
                        [i \in 1..Len(ordered) |->
                            SemanticResult(
                                [key |-> ordered[i],
                                 similarity |->
                                     embeddings[ordered[i]].similarity])]]
    /\ UNCHANGED embeddings

SearchNext ==
    \/ \E key \in SearchKeys, status \in EmbeddingStatuses,
          similarity \in Similarities :
          StoreEmbeddingRow(key, status, similarity)
    \/ \E user \in Owners, threshold \in Thresholds, session \in Sessions :
          SearchSimilarity(user, threshold, session)
    \/ \E user \in Owners, matching \in SUBSET SearchKeys,
          scoped \in BOOLEAN :
          KeywordSearch(user, matching, scoped)
    \/ \E user \in Owners, threshold \in Thresholds :
          PostSimilarity(user, threshold)

\* ------------------------------------------------------------------
\* The text chunker (chunkText)
\* ------------------------------------------------------------------
restT == <<qvars, evars, bvars, svars, mvars, hvars, cvars, dvars, gvars, wvars, lvars, ivars, pvars>>

\* a normalized text is a sequence of blocks separated by blank lines:
\* header lines and paragraphs, a paragraph having a number of
\* characters and being a code block or not
MaxBlocks == 3
ParagraphLengths == {2, 5, 9}
HeaderLength == 3
Blocks ==
    {[kind |-> "header", length |-> HeaderLength, code |-> FALSE]} \cup
    [kind : {"paragraph"}, length : ParagraphLengths, code : BOOLEAN]
Texts == UNION {[1..n -> Blocks] : n \in 0..MaxBlocks}

\* the options the chunker is called with (chunkSize, minChunkSize)
ChunkSize == 10
MinChunkSize == 4
SeparatorLength == 2

\* extractSections: the positions of the blocks of each section; a
\* header line ends a section and is not part of any content
RECURSIVE SectionsFrom(_, _, _, _)
SectionsFrom(text, i, sections, current) ==
    IF i > Len(text)
    THEN IF current # <<>> THEN Append(sections, current) ELSE sections
    ELSE IF text[i].kind = "header"
         THEN SectionsFrom(text, i + 1,
                  IF current # <<>> THEN Append(sections, current)
                  ELSE sections, <<>>)
         ELSE SectionsFrom(text, i + 1, sections, Append(current, i))

ExtractSections(text) ==
    LET sections == SectionsFrom(text, 1, <<>>, <<>>)
    IN IF sections = <<>>
       THEN <<[i \in 1..Len(text) |-> i]>>
       ELSE sections

\* createSemanticChunks: the paragraphs are accumulated up to ChunkSize;
\* an accumulated chunk is pushed only when it has at least MinChunkSize
\* characters, a code block is pushed as a chunk of its own
RECURSIVE SemanticChunks(_, _, _, _, _)
SemanticChunks(text, paragraphs, chunks, currentChunk, currentLength) ==
    LET kept == IF currentLength >= MinChunkSize
                THEN Append(chunks, currentChunk) ELSE chunks
    IN IF paragraphs = <<>> THEN kept
       ELSE LET p == Head(paragraphs)
            IN IF text[p].code /\ currentChunk # <<>>
               THEN SemanticChunks(text, Tail(paragraphs),
                        Append(kept, <<p>>), <<>>, 0)
               ELSE IF /\ currentChunk # <<>>
                       /\ currentLength + text[p].length > ChunkSize
               THEN SemanticChunks(text, Tail(paragraphs), kept, <<p>>,
                        text[p].length)
               ELSE SemanticChunks(text, Tail(paragraphs), chunks,
                        Append(currentChunk, p),
                        IF currentChunk # <<>>
                        THEN currentLength + SeparatorLength + text[p].length
                        ELSE text[p].length)

CreateSemanticChunks(text, paragraphs) ==
    SemanticChunks(text, paragraphs, <<>>, <<>>, 0)

\* the chunks of the sections, one section after the other
RECURSIVE ChunksOfSections(_, _)
ChunksOfSections(text, sections) ==
    IF sections = <<>> THEN <<>>
    ELSE CreateSemanticChunks(text, Head(sections))
             \o ChunksOfSections(text, Tail(sections))

\* addOverlapToChunks adds text of the neighbouring chunks only: a
\* chunk is the positions of its own paragraphs and whether text of the
\* chunk before and of the chunk after it was added
AddOverlapToChunks(chunks) ==
    [i \in 1..Len(chunks) |->
        [chunk_index |-> i - 1,
         content |-> chunks[i],
         overlap_before |-> Len(chunks) > 1 /\ i > 1,
         overlap_after |-> Len(chunks) > 1 /\ i < Len(chunks)]]

ChunkTextOf(text) ==
    AddOverlapToChunks(ChunksOfSections(text, ExtractSections(text)))

ChunkingInit == chunking = [pc |-> "idle", text |-> <<>>, chunks |-> <<>>]

ChunkText(text) ==
    /\ UNCHANGED restT
    /\ chunking' = [pc |-> "returned", text |-> text,
                    chunks |-> ChunkTextOf(text)]

ChunkNext == \E text \in Texts : ChunkText(text)

\* ------------------------------------------------------------------
\* The storage of embeddings (VectorStorageService) and the reprocess
\* endpoint of a chunk
\* ------------------------------------------------------------------
restG == <<qvars, evars, bvars, svars, mvars, hvars, cvars, dvars, tvars, wvars, lvars, ivars, pvars>>

NumReprocess == 1
MaxVectorRows == 2

ChunkIds == {"c1", "c2"}
Reprocessors == 1..NumReprocess

IdleReprocess == [pc |-> "idle", chunkId |-> "", force_reprocess |-> FALSE,
                  status |-> 0]

VectorStorageInit ==
    /\ vectorRows = [c \in ChunkIds |-> 0]
    /\ reprocess = [r \in Reprocessors |-> IdleReprocess]

\* insert into embeddings: the table has a generated primary key and no
\* unique constraint on chunk_id
InsertEmbeddings(rows, chunkIds) ==
    [c \in ChunkIds |->
        rows[c] + Cardinality({i \in 1..Len(chunkIds) : chunkIds[i] = c})]

\* VectorStorageService.storeEmbedding; an error of the store is logged
StoreEmbedding(chunkId, stored) ==
    /\ UNCHANGED restG
    /\ vectorRows[chunkId] < MaxVectorRows
    /\ vectorRows' = IF stored THEN InsertEmbeddings(vectorRows, <<chunkId>>)
                     ELSE vectorRows
    /\ UNCHANGED reprocess

\* VectorStorageService.batchStoreEmbeddings
BatchStoreEmbeddings(chunkIds, stored) ==
    /\ UNCHANGED restG
    /\ \A c \in ChunkIds : InsertEmbeddings(vectorRows, chunkIds)[c]
                               <= MaxVectorRows
    /\ vectorRows' = IF stored THEN InsertEmbeddings(vectorRows, chunkIds)
                     ELSE vectorRows
    /\ UNCHANGED reprocess

\* VectorStorageService.deleteEmbeddings
DeleteEmbeddings(chunkIds) ==
    /\ UNCHANGED restG
    /\ vectorRows' = [c \in ChunkIds |->
                         IF c \in chunkIds THEN 0 ELSE vectorRows[c]]
    /\ UNCHANGED reprocess

\* POST of the reprocess endpoint up to the lookup of the chunk
ReprocessPost(r, user, chunkId, owned, force_reprocess) ==
    /\ UNCHANGED restG
    /\ reprocess[r].pc \in {"idle", "done"}
    /\ reprocess' = [reprocess EXCEPT ![r] =
          IF ~user
          THEN [IdleReprocess EXCEPT !.pc = "done", !.status = 401]
          ELSE IF ~owned
          THEN [IdleReprocess EXCEPT !.pc = "done", !.chunkId = chunkId,
                                     !.status = 404]
          ELSE [pc |-> IF force_reprocess THEN "generate" ELSE "check",
                chunkId |-> chunkId, force_reprocess |-> force_reprocess,
                status |-> 0]]
    /\ UNCHANGED vectorRows

\* without force_reprocess: single() finds the embedding of the chunk
\* when there is exactly one
ReprocessCheck(r) ==
    /\ UNCHANGED restG
    /\ reprocess[r].pc = "check"
    /\ reprocess' = [reprocess EXCEPT ![r] =
          IF vectorRows[reprocess[r].chunkId] = 1
          THEN [@ EXCEPT !.pc = "done", !.status = 400]
          ELSE [@ EXCEPT !.pc = "generate"]]
    /\ UNCHANGED vectorRows

\* generateEmbedding, then the embedding to store is built: it reads
\* existingEmbedding, which is declared in the block of the check only,
\* so the handler ends in its catch with status 500 before it deletes
\* or inserts a row
ReprocessGenerate(r, generated) ==
    /\ UNCHANGED restG
    /\ reprocess[r].pc = "generate"
    /\ reprocess' = [reprocess EXCEPT ![r] =
                        [@ EXCEPT !.pc = "done", !.status = 500]]
    /\ UNCHANGED vectorRows

VectorStorageNext ==
    \/ \E chunkId \in ChunkIds, stored \in BOOLEAN :
          StoreEmbedding(chunkId, stored)
    \/ \E chunkIds \in UNION {[1..n -> ChunkIds] : n \in 1..2},
          stored \in BOOLEAN :
          BatchStoreEmbeddings(chunkIds, stored)
    \/ \E chunkIds \in SUBSET ChunkIds : DeleteEmbeddings(chunkIds)
    \/ \E r \in Reprocessors, user \in BOOLEAN, chunkId \in ChunkIds,
          owned \in BOOLEAN, force_reprocess \in BOOLEAN :
          ReprocessPost(r, user, chunkId, owned, force_reprocess)
    \/ \E r \in Reprocessors : ReprocessCheck(r)
    \/ \E r \in Reprocessors, generated \in BOOLEAN :
          ReprocessGenerate(r, generated)

(***************************************************************************)
(* RateLimiter: checkRateLimit and updateRateLimitStats over the windows   *)
(***************************************************************************)
restL == <<qvars, evars, bvars, svars, mvars, hvars, cvars, dvars, tvars, gvars, wvars, ivars, pvars>>

\* this.limits, the counts scaled down: requests and tokens per window;
\* a tokens limit of 0 is no limit on tokens
GeminiRequests == 3
GeminiTokens == 2
BatchRequests == 2
NoTokens == 0
NoLimit == [requests |-> 0, tokens |-> 0, window |-> 0]

\* a window (60000 ms) in units of the limiter's time
LimitWindow == 2
MaxLimitClock == 3
MaxLimitRows == 2
MaxCount == 3

LimiterServices == {"gemini_embeddings", "batch_processing", "other"}

\* this.limits.get(serviceName)
LimitsGet(serviceName) ==
    IF serviceName = "gemini_embeddings"
    THEN [requests |-> GeminiRequests, tokens |-> GeminiTokens, window |-> LimitWindow]
    ELSE IF serviceName = "batch_processing"
    THEN [requests |-> BatchRequests, tokens |-> NoTokens, window |-> LimitWindow]
    ELSE NoLimit

\* the userId arguments: an owner, or none
LimiterUsers == {"A", "null"}

NoCheck == [serviceName |-> "none", user |-> "null", at |-> 0, allowed |-> TRUE, seq |-> 0]

RateLimiterInit ==
    /\ limitRows = <<>>
    /\ limitNow = 0
    /\ limitCheck = NoCheck

\* eq('service_name', serviceName).eq('user_id', userId)
\* .gte('reset_time', from)
TrackingRows(serviceName, user, from) ==
    {i \in DOMAIN limitRows :
        /\ limitRows[i].service_name = serviceName
        /\ limitRows[i].user_id = user
        /\ limitRows[i].reset_time >= from}

\* eq('user_id', userId || null) without a userId compares the uuid column
\* with null by eq: the select answers with an error that is not PGRST116
SelectFails(user) == user = "null"

\* checkRateLimit: the record since windowStart = now - window, read with
\* single(); an error other than PGRST116, no record and no limit allow
LimiterCheckRateLimit(serviceName, user) ==
    /\ UNCHANGED restL
    /\ LET limit == LimitsGet(serviceName)
           windowStart == limitNow - limit.window
           usage == Single(TrackingRows(serviceName, user, windowStart))
           allowed ==
               IF limit = NoLimit THEN TRUE
               ELSE IF SelectFails(user) THEN TRUE
               ELSE IF usage = 0 THEN TRUE
               ELSE LET requestsExceeded ==
                            limitRows[usage].requests_count >= limit.requests
                        tokensExceeded ==
                            /\ limit.tokens > 0
                            /\ limitRows[usage].tokens_used >= limit.tokens
                    IN ~(requestsExceeded \/ tokensExceeded)
       IN limitCheck' = [serviceName |-> serviceName, user |-> user,
                         at |-> limitNow, allowed |-> allowed,
                         seq |-> 1 - limitCheck.seq]
    /\ UNCHANGED <<limitRows, limitNow>>

\* the window of a service without a limit: `|| 60000`
WindowOf(serviceName) ==
    IF LimitsGet(serviceName) = NoLimit THEN LimitWindow
    ELSE LimitsGet(serviceName).window

\* updateRateLimitStats: the record whose reset_time is not before now, read
\* with single(), is updated; without one a record that resets a window
\* from now is inserted.  A select error returns at once.  The times of the
\* model are coarse, so two records of one time do not collide on the
\* unique constraint.
UpdateRateLimitStats(serviceName, requestCount, tokensUsed, user) ==
    /\ UNCHANGED restL
    /\ LET existing == Single(TrackingRows(serviceName, user, limitNow))
       IN IF SelectFails(user)
          THEN UNCHANGED limitRows
          ELSE IF existing # 0
          THEN /\ limitRows[existing].requests_count + requestCount <= MaxCount
               /\ limitRows[existing].tokens_used + tokensUsed <= MaxCount
               /\ limitRows' = [limitRows EXCEPT
                      ![existing].requests_count = @ + requestCount,
                      ![existing].tokens_used = @ + tokensUsed]
          ELSE /\ Len(limitRows) < MaxLimitRows
               /\ limitRows' = Append(limitRows,
                      [service_name |-> serviceName, user_id |-> user,
                       requests_count |-> requestCount,
                       tokens_used |-> tokensUsed,
                       reset_time |-> limitNow + WindowOf(serviceName)])
    /\ UNCHANGED <<limitNow, limitCheck>>

\* half a window passes
LimitTick ==
    /\ UNCHANGED restL
    /\ limitNow < MaxLimitClock
    /\ limitNow' = limitNow + 1
    /\ UNCHANGED <<limitRows, limitCheck>>

RequestCounts == {1, 2}

RateLimiterNext ==
    \/ \E sv \in LimiterServices, u \in LimiterUsers :
           LimiterCheckRateLimit(sv, u)
    \/ \E sv \in LimiterServices, rc \in RequestCounts, tk \in TokenInputs,
          u \in LimiterUsers :
           UpdateRateLimitStats(sv, rc, tk, u)
    \/ LimitTick

(***************************************************************************)
(* IndexManager.autoOptimizeIndexes                                        *)
(***************************************************************************)
restI == <<qvars, evars, bvars, svars, mvars, hvars, cvars, dvars, tvars, gvars, wvars, lvars, pvars>>

\* `usage.total_vectors > 10000`
HighVolume == 10000
MaxIndexes == 2

\* total_embeddings of get_vector_stats, around the threshold
VectorCounts == {0, HighVolume, HighVolume + 1}

HealthStatuses == {"healthy", "degraded", "unhealthy"}

\* what get_index_stats reports: a status per index
IndexReports == UNION {[1..n -> HealthStatuses] : n \in 0..MaxIndexes}

IdleIndexRun ==
    [pc |-> "idle", total_vectors |-> 0, reports |-> <<>>,
     healthFailed |-> FALSE, rebuilds |-> <<>>]

IndexManagerInit == indexRun = IdleIndexRun

\* health.filter(idx => idx.health_status !== 'healthy')
UnhealthyIndexes(health) ==
    {i \in 1..Len(health) : health[i] # "healthy"}

\* autoOptimizeIndexes up to the test of the count: monitorIndexUsage
\* answers with the count, or with 0 after an error of get_vector_stats
AutoMonitor(total, ok, reports) ==
    /\ UNCHANGED restI
    /\ indexRun.pc \in {"idle", "done"}
    /\ LET total_vectors == IF ok THEN total ELSE 0
       IN indexRun' = [IdleIndexRun EXCEPT
              !.pc = IF total_vectors > HighVolume THEN "optimize" ELSE "health",
              !.total_vectors = total,
              !.reports = reports]

\* optimizeIndexPerformance: ANALYZE, then rebuildVectorIndex, which
\* throws when optimize_vector_indexes answers with an error; the throw
\* ends autoOptimizeIndexes in its catch
AutoOptimize(rebuilt) ==
    /\ UNCHANGED restI
    /\ indexRun.pc = "optimize"
    /\ indexRun' = [indexRun EXCEPT
           !.pc = IF rebuilt THEN "health" ELSE "done",
           !.rebuilds = Append(@, "optimize")]

\* getIndexHealth (an error of get_index_stats yields no index) and the
\* filter of the indexes that are not healthy
AutoHealth(ok) ==
    /\ UNCHANGED restI
    /\ indexRun.pc = "health"
    /\ LET health == IF ok THEN indexRun.reports ELSE <<>>
       IN indexRun' = [indexRun EXCEPT
              !.pc = IF UnhealthyIndexes(health) # {} THEN "rebuild" ELSE "done",
              !.healthFailed = ~ok]

\* the rebuildVectorIndex of the health check; its throw is caught
AutoRebuild ==
    /\ UNCHANGED restI
    /\ indexRun.pc = "rebuild"
    /\ indexRun' = [indexRun EXCEPT !.pc = "done",
                                    !.rebuilds = Append(@, "health")]

IndexManagerNext ==
    \/ \E total \in VectorCounts, ok \in BOOLEAN, reports \in IndexReports :
           AutoMonitor(total, ok, reports)
    \/ \E rebuilt \in BOOLEAN : AutoOptimize(rebuilt)
    \/ \E ok \in BOOLEAN : AutoHealth(ok)
    \/ AutoRebuild

(***************************************************************************)
(* The document-processing queue: addProcessingJob, processNextJob,        *)
(* processDocument and handleJobFailure                                     *)
(***************************************************************************)
restP == <<qvars, evars, bvars, svars, mvars, hvars, cvars, dvars, tvars, gvars, wvars, lvars, ivars>>

MAX_RETRIES == 3

MaxPJobs == 1
MaxPInv == 2
MaxAttempts == 5

\* the chunks of a document, and the size of an insert batch (100), scaled
ChunksPerDocument == 2
ChunkBatchSize == 1

PJobIds == 1..MaxPJobs
PInvIds == 1..MaxPInv

\* job j is the job of document j
NoPJob == [status |-> "none", retry_count |-> 0, error_message |-> "null", attempts |-> 0]

IdlePInv == [pc |-> "idle", job |-> 0, retry_count |-> 0, chunkCount |-> 0, error |-> "null"]

ProcessingInit ==
    /\ pjobs = [j \in PJobIds |-> NoPJob]
    /\ pinvs = [i \in PInvIds |-> IdlePInv]
    /\ pdocs = [j \in PJobIds |-> [processing_status |-> "pending",
                                   processing_error |-> "null",
                                   chunk_count |-> 0]]
    /\ pchunks = [j \in PJobIds |-> <<>>]

\* addProcessingJob: the insert of a pending job (the setImmediate is an
\* invocation of processNextJob that starts later)
AddProcessingJob ==
    /\ UNCHANGED restP
    /\ \E j \in PJobIds :
          /\ pjobs[j].status = "none"
          /\ \A k \in PJobIds : k < j => pjobs[k].status # "none"
          /\ pjobs' = [pjobs EXCEPT ![j].status = "pending"]
    /\ UNCHANGED <<pinvs, pdocs, pchunks>>

\* eq('status', 'pending').order('created_at').limit(1).single()
NextPendingJob ==
    LET pending == {j \in PJobIds : pjobs[j].status = "pending"}
    IN IF pending = {} THEN 0
       ELSE CHOOSE j \in pending : \A k \in pending : j <= k

\* processNextJob up to the answer of its select; without a pending job
\* it returns.  An invocation starts at any time: from the setImmediate
\* of addProcessingJob, the tail of an earlier invocation, the retry timer
\* or the endpoint
ProcessSelect(i) ==
    /\ UNCHANGED restP
    /\ pinvs[i].pc = "idle"
    /\ NextPendingJob # 0
    /\ pjobs[NextPendingJob].attempts < MaxAttempts
    /\ pinvs' = [pinvs EXCEPT ![i] =
           [IdlePInv EXCEPT !.pc = "mark", !.job = NextPendingJob,
                            !.retry_count = pjobs[NextPendingJob].retry_count]]
    /\ UNCHANGED <<pjobs, pdocs, pchunks>>

\* updateJobStatus(job.id, 'processing'); processDocument starts
ProcessMark(i) ==
    /\ UNCHANGED restP
    /\ pinvs[i].pc = "mark"
    /\ pjobs' = [pjobs EXCEPT ![pinvs[i].job].status = "processing",
                              ![pinvs[i].job].attempts = @ + 1]
    /\ pinvs' = [pinvs EXCEPT ![i].pc = "process"]
    /\ UNCHANGED <<pdocs, pchunks>>

ProcessOutcomes == {"error", "partial", "ok"}

\* the chunk_index values of the batches that reach the table: none when
\* the download or the parse throws, the first batch when the second
\* insert fails, all of them otherwise
InsertedChunks(outcome) ==
    IF outcome = "error" THEN <<>>
    ELSE IF outcome = "partial" THEN [k \in 1..ChunkBatchSize |-> k - 1]
    ELSE [k \in 1..ChunksPerDocument |-> k - 1]

\* insert(batch): the rows are added to those of the document
InsertChunks(rows, inserted) == rows \o inserted

\* processDocument: its inserts into document_chunks and its result
ProcessDocument(i, outcome) ==
    /\ UNCHANGED restP
    /\ pinvs[i].pc = "process"
    /\ pchunks' = [pchunks EXCEPT ![pinvs[i].job] =
                      InsertChunks(@, InsertedChunks(outcome))]
    /\ pinvs' = [pinvs EXCEPT ![i] =
           IF outcome = "ok"
           THEN [@ EXCEPT !.pc = "completed", !.chunkCount = ChunksPerDocument]
           ELSE [@ EXCEPT !.pc = "failure", !.error = "error"]]
    /\ UNCHANGED <<pjobs, pdocs>>

\* result.success: updateJobStatus(job.id, 'completed')
ProcessComplete(i) ==
    /\ UNCHANGED restP
    /\ pinvs[i].pc = "completed"
    /\ pjobs' = [pjobs EXCEPT ![pinvs[i].job].status = "completed"]
    /\ pinvs' = [pinvs EXCEPT ![i].pc = "document"]
    /\ UNCHANGED <<pdocs, pchunks>>

\* the update of the document: processing_status and chunk_count; the
\* invocation ends
ProcessDocumentUpdate(i) ==
    /\ UNCHANGED restP
    /\ pinvs[i].pc = "document"
    /\ pdocs' = [pdocs EXCEPT ![pinvs[i].job].processing_status = "completed",
                              ![pinvs[i].job].chunk_count = pinvs[i].chunkCount]
    /\ pinvs' = [pinvs EXCEPT ![i] = IdlePInv]
    /\ UNCHANGED <<pjobs, pchunks>>

\* handleJobFailure, from the job as the select read it: failed for good
\* with the document, or pending again with the new retry_count; the
\* invocation ends
HandleJobFailure(i) ==
    /\ UNCHANGED restP
    /\ pinvs[i].pc = "failure"
    /\ LET retryCount == pinvs[i].retry_count + 1
           j == pinvs[i].job
       IN IF retryCount >= MAX_RETRIES
          THEN /\ pjobs' = [pjobs EXCEPT ![j].status = "failed",
                                         ![j].error_message = pinvs[i].error]
               /\ pdocs' = [pdocs EXCEPT ![j].processing_status = "failed",
                                         ![j].processing_error = pinvs[i].error]
          ELSE /\ pjobs' = [pjobs EXCEPT ![j].status = "pending",
                                         ![j].retry_count = retryCount,
                                         ![j].error_message = pinvs[i].error]
               /\ UNCHANGED pdocs
    /\ pinvs' = [pinvs EXCEPT ![i] = IdlePInv]
    /\ UNCHANGED pchunks

ProcessingNext ==
    \/ AddProcessingJob
    \/ \E i \in PInvIds : ProcessSelect(i)
    \/ \E i \in PInvIds : ProcessMark(i)
    \/ \E i \in PInvIds, outcome \in ProcessOutcomes : ProcessDocument(i, outcome)
    \/ \E i \in PInvIds : ProcessComplete(i)
    \/ \E i \in PInvIds : ProcessDocumentUpdate(i)
    \/ \E i \in PInvIds : HandleJobFailure(i)

\* a document whose processing fails on every attempt
FailingNext ==
    \/ AddProcessingJob
    \/ \E i \in PInvIds : ProcessSelect(i)
    \/ \E i \in PInvIds : ProcessMark(i)
    \/ \E i \in PInvIds, outcome \in {"error", "partial"} : ProcessDocument(i, outcome)
    \/ \E i \in PInvIds : HandleJobFailure(i)

Init ==
    /\ QueueInit /\ EmbedInit /\ BatchInit /\ StatsInit /\ MiddlewareInit
    /\ HybridInit /\ RankingInit
    /\ SearchCacheInit /\ SearchStoreInit /\ ChunkingInit
    /\ VectorStorageInit /\ RetryClockInit /\ DocumentsInit
    /\ RateLimiterInit /\ IndexManagerInit /\ ProcessingInit

\* every operation of the queue, with the inputs the model enumerates
QueueNext ==
    \/ \E c \in Callers, d \in Docs, p \in PriorityInputs : AddCheck(c, d, p)
    \/ \E c \in Callers : AddCreate(c)
    \/ \E c \in Callers : AddPrio(c)
    \/ \E l \in LoopIds : LoopDequeue(l)
    \/ \E l \in LoopIds : LoopWake(l)
    \/ \E i \in InvIds : InvMarkProcessing(i)
    \/ \E i \in InvIds, ok \in BOOLEAN : InvLoadChunks(i, ok)
    \/ \E i \in InvIds, ok \in BOOLEAN : InvBatchChunk(i, ok)
    \/ \E i \in InvIds : InvBatchThrow(i)
    \/ \E i \in InvIds : InvBatchDone(i)
    \/ \E i \in InvIds : InvMarkFailed(i)
    \/ \E i \in InvIds : InvRetry(i)
    \/ \E ds \in (SUBSET Docs) \ {{}} : PrioritizeUrgentJobs(ds)
    \/ \E j \in JobIds : CancelJob(j)
    \/ ClearFailedJobs
    \/ StopProcessing
    \/ \E n \in ConcurrencyInputs : SetConcurrency(n)

Spec == Init /\ [][QueueNext \/ EmbedNext]_vars

(***************************************************************************)
(* Scenarios: the same operations under a restricted environment           *)
(***************************************************************************)
\* the worker when every chunk query and every batch succeeds
WorkerOk ==
    \/ \E l \in LoopIds : LoopDequeue(l)
    \/ \E l \in LoopIds : LoopWake(l)
    \/ \E i \in InvIds : InvMarkProcessing(i)
    \/ \E i \in InvIds : InvLoadChunks(i, TRUE)
    \/ \E i \in InvIds, ok \in BOOLEAN : InvBatchChunk(i, ok)
    \/ \E i \in InvIds : InvBatchDone(i)

\* the failure path of processJob
WorkerFail ==
    \/ \E i \in InvIds : InvLoadChunks(i, FALSE)
    \/ \E i \in InvIds : InvBatchThrow(i)
    \/ \E i \in InvIds : InvMarkFailed(i)
    \/ \E i \in InvIds : InvRetry(i)

\* concurrent submissions with priorities; processing never throws
SubmitNext ==
    \/ \E c \in Callers, d \in Docs, p \in PriorityInputs : AddCheck(c, d, p)
    \/ \E c \in Callers : AddCreate(c)
    \/ \E c \in Callers : AddPrio(c)
    \/ \E ds \in (SUBSET Docs) \ {{}} : PrioritizeUrgentJobs(ds)
    \/ WorkerOk

SpecSubmit == Init /\ [][SubmitNext]_vars

\* one job of one document: processing, failure, retry, cancellation, stop
OneJobNext ==
    \/ (nextJob = 1 /\ AddCheck(1, 1, "normal"))
    \/ AddCreate(1)
    \/ WorkerOk
    \/ WorkerFail
    \/ \E j \in JobIds : CancelJob(j)
    \/ StopProcessing

SpecOneJob == Init /\ [][OneJobNext]_vars

\* the concurrency is configured before the queue is used and then fixed
ConfigureConcurrency(n) ==
    /\ nextJob = 1
    /\ \A c \in Callers : adds[c].pc = "idle"
    /\ SetConcurrency(n)

ConcurrencyNext ==
    \/ \E n \in ConcurrencyInputs : ConfigureConcurrency(n)
    \/ \E d \in Docs : AddCheck(1, d, "normal")
    \/ AddCreate(1)
    \/ StopProcessing
    \/ WorkerOk

SpecConcurrency == Init /\ [][ConcurrencyNext]_vars

\* the embedding service alone
\* concurrent callers sharing the cache, the provider answering with a
\* vector or with an error
CacheNext ==
    \/ \E c \in EmbedCallers : CallStep(c, {"ok", "error"})
    \/ RateWindowEnds

SpecEmbed == Init /\ [][CacheNext]_vars

\* one caller, the provider answering in every way
GenerateNext ==
    \/ CallStep(1, ProviderOutcomes)
    \/ RateWindowEnds

SpecGenerate == Init /\ [][GenerateNext]_vars

SpecBatch == Init /\ [][BatchNext]_vars

SpecStats == Init /\ [][StatsNext]_vars

SpecMiddleware == Init /\ [][MiddlewareNext]_vars

SpecDocuments == Init /\ [][DocumentsNext]_vars

\* the hybrid search endpoint, one request after the other
SpecHybrid == Init /\ [][HybridNext]_vars

\* rankSearchResults applied to every list of results of the model
SpecRank == Init /\ [][RankNext]_vars

\* the storage of embeddings with concurrent reprocess requests
SpecVectorStorage == Init /\ [][VectorStorageNext]_vars

\* chunkText applied to every text of the model
SpecChunk == Init /\ [][ChunkNext]_vars

\* the searches over a store whose embeddings change
SpecSearch == Init /\ [][SearchNext]_vars

\* the cache of search results, written by the service and by the route
SpecSearchCache == Init /\ [][SearchCacheNext]_vars

\* the cache of search results, used through the service only
SpecServiceCache == Init /\ [][ServiceCacheNext]_vars

\* a job whose processing throws on every attempt
RetryNext ==
    \/ (nextJob = 1 /\ AddCheck(1, 1, "normal"))
    \/ AddCreate(1)
    \/ \E l \in LoopIds : LoopDequeue(l)
    \/ \E l \in LoopIds : LoopWake(l)
    \/ \E i \in InvIds : InvMarkProcessing(i)
    \/ \E i \in InvIds : InvLoadChunks(i, FALSE)
    \/ \E i \in InvIds : InvMarkFailed(i)
    \/ \E i \in InvIds : InvRetry(i)

SpecRetry == Init /\ [][RetryNext]_vars

\* the same job, whose chunks may load and embed as well: processJob ends
\* by completing the job, by requeueing it or by failing it for good
SlotNext ==
    \/ RetryNext
    \/ \E i \in InvIds : InvLoadChunks(i, TRUE)
    \/ \E i \in InvIds : InvBatchChunk(i, TRUE)
    \/ \E i \in InvIds : InvBatchDone(i)

SpecSlots == Init /\ [][SlotNext]_vars

\* the same job while time passes
BackoffNext == RetryNext \/ QueueTick

SpecBackoff == Init /\ [][BackoffNext]_vars

SpecRateLimiter == Init /\ [][RateLimiterNext]_vars

SpecIndexManager == Init /\ [][IndexManagerNext]_vars

SpecProcessing == Init /\ [][ProcessingNext]_vars

SpecFailing == Init /\ [][FailingNext]_vars

(***************************************************************************)
(* The claims                                                              *)
(***************************************************************************)
Running == {i \in InvIds : invs[i].pc # "none"}

\* invocation i begins in this step
Begins(i) == invs[i].pc = "none" /\ invs'[i].pc # "none"

\* C1: in every reachable state a document has at most one embedding job
\* whose status is pending or processing.
C1_OneActiveJobPerDocument ==
    \A d \in Docs : Cardinality(ActiveJobsOf(d)) <= 1

\* C2: addEmbeddingJob(documentId) is rejected whenever the document has a
\* job in pending or processing at the time of its check: a call that gets
\* past the check found no such job, and the check changes no job.
C2_ActiveJobRejectsSubmission ==
    [][\A c \in Callers :
          (adds[c].pc = "idle" /\ adds'[c].pc = "create")
              => (ActiveJobsOf(adds'[c].doc) = {} /\ jobs' = jobs)]_vars

LegalTransitions ==
    {<<"pending", "processing">>, <<"processing", "completed">>,
     <<"processing", "failed">>, <<"failed", "pending">>,
     <<"pending", "cancelled">>, <<"processing", "cancelled">>}

\* C3: every status change of a job is pending->processing,
\* processing->completed, processing->failed, failed->pending (with the
\* retry count within the ceiling), pending->cancelled or
\* processing->cancelled; completed and cancelled are terminal.
C3_OnlyLegalTransitions ==
    [][\A j \in JobIds :
          (jobs[j].status # "none" /\ jobs'[j].status # "none"
           /\ jobs'[j].status # jobs[j].status)
              => /\ <<jobs[j].status, jobs'[j].status>> \in LegalTransitions
                 /\ jobs'[j].status = "pending"
                        => jobs[j].retry_count <= RetryCeiling]_vars

\* C4: once a job is cancelled, its status is never afterwards set to
\* processing, failed or pending.
C4_CancelledIsNeverResumed ==
    [][\A j \in JobIds :
          jobs[j].status = "cancelled"
              => jobs'[j].status \notin {"processing", "failed", "pending"}]_vars

\* C5: with max_retries = 3, every failure of a job whose processing always
\* throws raises retry_count by exactly 1, and once the job has failed with
\* retry_count = 4 its row stays as it is (failed, never pending again).
C5_FourFailuresAreTerminal ==
    [][\A j \in JobIds :
          /\ (\E i \in InvIds :
                 /\ invs[i].job = j
                 /\ invs[i].pc = "markFailed"
                 /\ invs'[i].pc # "markFailed"
                 /\ jobs[j].status # "none")
                => jobs'[j].retry_count = jobs[j].retry_count + 1
          /\ (jobs[j].status = "failed"
              /\ jobs[j].retry_count = RetryCeiling + 1)
                => jobs'[j] = jobs[j]]_vars

\* C6: with the concurrency fixed at c, the number of jobs being processed
\* at the same time never exceeds c.
C6_InFlightWithinConcurrency ==
    Cardinality({invs[i].job : i \in Running}) <= concurrency

Rank(p) == CASE p = "high" -> 3 [] p = "normal" -> 2 [] OTHER -> 1

\* C7: the job the worker dequeues has the highest priority among the
\* pending jobs and, among those of that priority, the earliest creation
\* time.
C7_DequeueByPriorityThenAge ==
    [][\A i \in InvIds :
          Begins(i)
              => \A k \in Rows :
                    jobs[k].status = "pending"
                        => LET j == invs'[i].job
                           IN  \/ Rank(jobs[k].priority) < Rank(jobs[j].priority)
                               \/ /\ jobs[k].priority = jobs[j].priority
                                  /\ j <= k]_vars

\* C8: while the queue is stopped (stopProcessing was called and nothing
\* restarted it), no processJob invocation begins.
C8_NoDequeueAfterStop ==
    [][~processing => \A i \in InvIds : ~Begins(i)]_vars

\* C9: for every job, processed_chunks + failed_chunks <= total_chunks.
C9_ChunkCountersWithinTotal ==
    \A j \in Rows :
        jobs[j].processed_chunks + jobs[j].failed_chunks <= jobs[j].total_chunks

\* C10: with caching on, once a generateEmbedding call for a text has
\* succeeded, a later call for the same text finds the cached row holding
\* the vector returned the first time, and a call that found a cached row
\* returns cached = true with that row's vector without any provider call.
C10_SecondCallIsServedFromCache ==
    [][/\ \A c, first \in EmbedCallers :
             (/\ calls[first].pc = "idle"
              /\ calls[first].result.status = "ok"
              /\ calls[first].cache_result
              /\ calls[c].pc = "idle"
              /\ calls'[c].pc # "idle"
              /\ calls'[c].cache_result
              /\ calls'[c].processed = calls[first].processed)
                 => /\ calls'[c].pc = "touch"
                    /\ calls'[c].data.embedding = calls[first].result.embedding
       /\ \A c \in EmbedCallers :
             (calls[c].pc = "touch" /\ calls'[c].pc = "idle")
                 => /\ calls'[c].result =
                          [status |-> "ok", cached |-> TRUE,
                           embedding |-> calls[c].data.embedding, code |-> "",
                           message |-> ""]
                    /\ calls'[c].provider_calls = 0]_vars

\* a call has been answered from the cache, with the provider's vector of
\* its text and without a provider call
C10_Witness ==
    \E c \in EmbedCallers :
        /\ calls[c].pc = "idle"
        /\ calls[c].result.status = "ok"
        /\ calls[c].result.cached
        /\ calls[c].result.embedding = ProviderVector(calls[c].processed)
        /\ calls[c].provider_calls = 0

\* the provider calls of c that failed with an error other than a rate limit
OtherFailures(c) == calls[c].provider_calls - calls[c].rate_limited

\* C11: rate-limit errors do not consume the retry budget: whenever
\* generateEmbeddingWithRetry gives up, max_retries of its provider calls
\* failed with a non-rate-limit error (so it never gives up on rate-limit
\* errors alone, and a success after r rate-limit errors is still awaited).
C11_RateLimitsKeepTheBudget ==
    \A c \in EmbedCallers :
        calls[c].pc = "giveup" => OtherFailures(c) = MaxRetries

\* C12: when every provider call fails with a non-rate-limit error,
\* generateEmbeddingWithRetry gives up after exactly max_retries calls,
\* having waited retry_delay_ms * 2^(attempt-1) after each attempt but the
\* last, and the caller gets an error carrying the last provider error; the
\* number of provider calls never exceeds max_retries.
C12_BackoffThenLastError ==
    [][\A c \in EmbedCallers :
          /\ calls'[c].provider_calls <= MaxRetries
          /\ (calls'[c].pc = "giveup" /\ calls'[c].rate_limited = 0)
                => /\ calls'[c].provider_calls = MaxRetries
                   /\ calls'[c].waits =
                         [k \in 1..(MaxRetries - 1) |-> RetryDelayMs * 2^(k - 1)]
          /\ (calls[c].pc = "giveup" /\ calls'[c].pc = "idle")
                => /\ calls'[c].result.status = "error"
                   /\ calls'[c].result.message = calls[c].lastError
                   /\ calls'[c].provider_calls = calls[c].provider_calls]_vars

\* the retry loop has been left after max_retries failures none of which
\* was a rate limit
C12_Witness ==
    \E c \in EmbedCallers :
        /\ calls[c].pc = "giveup"
        /\ calls[c].rate_limited = 0
        /\ calls[c].provider_calls = MaxRetries
        /\ calls[c].lastError = "error"

\* C13: after the provider has answered with a vector whose length is not
\* 768, no further provider call is made for the request.
C13_BadDimensionsAreNotRetried ==
    \A c \in EmbedCallers :
        calls[c].lastError = "baddim" => calls[c].pc # "provider"

C14_NoEmptyVectorResult ==
    /\ batch.pc = "idle" => Len(batch.results) = Len(batch.texts)
    /\ \A k \in 1..Len(batch.results) : batch.results[k].embedding # <<>>

RECURSIVE SumOf(_, _)
SumOf(rows, field) ==
    IF rows = <<>> THEN 0 ELSE Head(rows)[field] + SumOf(Tail(rows), field)

\* C16: no update of updateRateLimitStats is lost: once the concurrent
\* calls for one (service, owner) and window have returned, the recorded
\* requests_count and tokens_used are the sums of the calls' increments.
C16_NoLostUpdate ==
    (\A u \in Updaters : ups[u].pc = "idle")
        => /\ SumOf(stats, "requests_count") = applied.requests
           /\ SumOf(stats, "tokens_used") = applied.tokens

\* the request answered in this step
Answered == response'.seq # response.seq

\* C17: a request is let through if and only if its key has no live window
\* record (none yet, or now is past resetTime), in which case it opens a
\* window counting 1, or fewer requests than its limit were let through in
\* the key's window; every other request is answered 429 and counts
\* nothing; a key whose requests have one limit admits at most that many.
C17_WindowAdmitsAtMostLimit ==
    [][Answered =>
          LET url == response'.url
              key == KeyOf(url)
              open == rateLimitStore[key].count # 0
                         /\ now <= rateLimitStore[key].resetTime
          IN  /\ response'.status = "next"
                    <=> (~open \/ admitted.window[key] < LimitOf(url))
              /\ response'.status \in {"next", "429"}
              /\ (~open /\ response'.status = "next")
                    => /\ admitted'.window[key] = 1
                       /\ rateLimitStore'[key].resetTime = now + WindowMsOf(url)
              /\ response'.status = "429" => admitted' = admitted
              /\ admitted'.window[KeyOf(AuthUrl)] <= AuthLimit]_vars

\* after the resetTime of a key's window a request has opened a new one
C17_Witness ==
    /\ response.url = AuthUrl
    /\ response.status = "next"
    /\ now > MinuteMs
    /\ rateLimitStore[KeyOf(AuthUrl)] = [count |-> 1, resetTime |-> now + MinuteMs]
    /\ admitted.window[KeyOf(AuthUrl)] = 1

\* C18: uploads are limited on their own, 10 per hour: within the first
\* hour, an upload request of a client none of whose uploads was let
\* through so far (fewer than 10, then) is let through, whatever the
\* client's other /api/documents requests.
C18_UploadsHaveTheirOwnLimit ==
    [][(Answered /\ response'.url = UploadUrl /\ ~admitted.uploaded
        /\ now < 60 * MinuteMs)
          => response'.status = "next"]_vars

\* C19: a hybrid search request whose weights do not sum to 1 is answered
\* with an error and none of the two queries is executed for it; a
\* request of a signed-in user with a query, a limit of at most 100 and
\* weights that sum to 1 goes on to the semantic query
C19_BadWeightsAreRejectedFirst ==
    [][/\ hybrid'.executed # {} =>
            SemanticWeightOf(hybrid'.body) + KeywordWeightOf(hybrid'.body)
                = WeightOne
       /\ (hybrid.pc \in {"idle", "done"} /\ hybrid' # hybrid) =>
            IF SemanticWeightOf(hybrid'.body) + KeywordWeightOf(hybrid'.body)
                   # WeightOne
            THEN /\ hybrid'.pc = "done"
                 /\ hybrid'.status \in {400, 401}
                 /\ hybrid'.executed = {}
            ELSE (/\ hybrid'.user
                  /\ ~QueryMissing(hybrid'.body)
                  /\ LimitOf100(hybrid'.body) <= 100)
                 => hybrid'.pc = "semantic" /\ hybrid'.status = 0]_vars

\* a request with weights 0.6 and 0.3 was answered with status 400
C19_Witness ==
    /\ hybrid.pc = "done"
    /\ hybrid.status = 400
    /\ hybrid.error = "Semantic and keyword weights must sum to 1"
    /\ SemanticWeightOf(hybrid.body) + KeywordWeightOf(hybrid.body) = 90
    /\ hybrid.executed = {}

\* C20: rankSearchResults returns the results it was given, in an order
\* in which similarity_score never increases and, among results of the
\* same similarity_score, the creation time of the document never
\* increases
C20_RankedByScoreThenRecency ==
    ranking.pc = "returned" =>
        /\ Len(ranking.ranked) = Len(ranking.results)
        /\ \A e \in RankElements :
              Cardinality({i \in 1..Len(ranking.ranked) :
                              ranking.ranked[i] = e})
              = Cardinality({i \in 1..Len(ranking.results) :
                                ranking.results[i] = e})
        /\ \A i \in 1..(Len(ranking.ranked) - 1) :
              /\ ranking.ranked[i].similarity_score
                     >= ranking.ranked[i + 1].similarity_score
              /\ ranking.ranked[i].similarity_score
                     = ranking.ranked[i + 1].similarity_score
                 => ranking.ranked[i].created_at
                        >= ranking.ranked[i + 1].created_at

\* results given out of order came back with a tie in similarity_score
\* broken by the newer document
C20_Witness ==
    /\ ranking.pc = "returned"
    /\ ranking.ranked # ranking.results
    /\ \E i \in 1..(Len(ranking.ranked) - 1) :
          /\ ranking.ranked[i].similarity_score
                 = ranking.ranked[i + 1].similarity_score
          /\ ranking.ranked[i].created_at > ranking.ranked[i + 1].created_at
          /\ ranking.results[i].created_at < ranking.results[i + 1].created_at
          /\ ranking.results[i].similarity_score
                 = ranking.results[i + 1].similarity_score

C22_ExpiredEntriesAreNotReturned ==
    [][lookup'.seq # lookup.seq =>
          LET rows == {r \in searchCache :
                          r.query_hash = QueryHash(lookup'.query)}
          IN /\ lookup'.returned # NoCachedResults =>
                   \E r \in rows :
                       /\ r.search_results = lookup'.returned
                       /\ r.expires_at > clock
                       /\ r.expires_at - HourTicks <= clock
             /\ (\A r \in rows : r.expires_at <= clock) =>
                   lookup'.returned = NoCachedResults]_vars

\* a call at the very time at which the entry of its query expires got
\* null
C22_Witness ==
    /\ lookup.returned = NoCachedResults
    /\ \E r \in searchCache :
          /\ r.query_hash = QueryHash(lookup.query)
          /\ r.expires_at = lookup.at
          /\ r.search_results = ResultsOf(lookup.user)

C24_ResultsBelongToTheCaller ==
    \A i \in 1..Len(found.results) :
        DocumentOwner(found.results[i].key[1]) = found.user

\* C25: the chunks that chunkText returns cover the normalized text:
\* every paragraph of the text is part of the content of a chunk
C25_ChunksCoverTheText ==
    chunking.pc = "returned" =>
        \A p \in 1..Len(chunking.text) :
            chunking.text[p].kind = "paragraph" =>
                \E i \in 1..Len(chunking.chunks) :
                    \E j \in 1..Len(chunking.chunks[i].content) :
                        chunking.chunks[i].content[j] = p

\* C26: there is at most one row of embeddings per chunk in every
\* reachable state
C26_OneEmbeddingPerChunk ==
    \A c \in ChunkIds : vectorRows[c] <= 1

\* C27: a job that failed and was rescheduled is not dequeued again
\* before the retry time that retryJob scheduled for it
C27_NoDequeueBeforeRetryTime ==
    [][\A i \in InvIds :
          (invs[i].pc = "none" /\ invs'[i].pc = "markProcessing") =>
              queueNow >= scheduledAt[invs'[i].job]]_vars

\* C28: when an embedding job fails with its retries exhausted and ends
\* as failed for good, the processing status of its document becomes
\* failed and carries the error message
C28_DocumentReflectsPermanentFailure ==
    [][\A i \in InvIds :
          (invs[i].pc = "markFailed" /\ invs'[i].pc = "none") =>
              /\ documents'[invs[i].doc].processing_status = "failed"
              /\ documents'[invs[i].doc].processing_error # "null"]_vars

\* C29: generateEmbedding calls the embedding provider for a request
\* only after a rate-limit permit was acquired for it: checkRateLimit
\* returns, and the first provider call is issued, only when the consume
\* of the request was resolved
C29_ProviderCallsHoldAPermit ==
    [][\A c \in EmbedCallers :
          (calls[c].pc = "ratelimit" /\ calls'[c].pc = "provider") =>
              Consumed(rlPoints)]_vars

\* the usage that updateRateLimitStats recorded for the service and owner
\* in the current window: the records that have not reset yet
RecordedNow(serviceName, user) ==
    {i \in DOMAIN limitRows :
        /\ limitRows[i].service_name = serviceName
        /\ limitRows[i].user_id = user
        /\ limitRows[i].reset_time >= limitNow}

RECURSIVE UsageOf(_, _)
UsageOf(records, field) ==
    IF records = {} THEN 0
    ELSE LET i == CHOOSE r \in records : TRUE
         IN limitRows[i][field] + UsageOf(records \ {i}, field)

\* C30: for a service with a limit, checkRateLimit returns false whenever
\* the usage recorded in the current window for the service and owner has
\* reached the request limit, or the token limit when that is positive;
\* it returns true when no limit is configured or no usage is recorded
C30_CheckFollowsRecordedUsage ==
    [][limitCheck'.seq # limitCheck.seq =>
          LET serviceName == limitCheck'.serviceName
              limit == LimitsGet(serviceName)
              records == RecordedNow(serviceName, limitCheck'.user)
          IN /\ (limit = NoLimit \/ records = {}) => limitCheck'.allowed
             /\ ( /\ limit # NoLimit
                  /\ \/ UsageOf(records, "requests_count") >= limit.requests
                     \/ /\ limit.tokens > 0
                        /\ UsageOf(records, "tokens_used") >= limit.tokens )
                    => ~limitCheck'.allowed]_vars

\* the records of the service and owner, whatever their reset time
RecordsOf(serviceName, user) ==
    {i \in DOMAIN limitRows :
        /\ limitRows[i].service_name = serviceName
        /\ limitRows[i].user_id = user}

\* C31: once the reset time of the windows recorded for a service and
\* owner has passed, checkRateLimit admits requests for them again, and
\* at most one record per service and owner is in the window that
\* checkRateLimit reads
C31_PassedWindowIsSuperseded ==
    [][limitCheck'.seq # limitCheck.seq =>
          LET serviceName == limitCheck'.serviceName
              user == limitCheck'.user
              limit == LimitsGet(serviceName)
          IN /\ (\A i \in RecordsOf(serviceName, user) :
                     limitRows[i].reset_time < limitNow)
                    => limitCheck'.allowed
             /\ limit # NoLimit =>
                    Cardinality(TrackingRows(serviceName, user,
                                             limitNow - limit.window)) <= 1]_vars

\* the score of a key under the weights of the request
RequestedScore(key, semanticResults, keys, body) ==
    LET sem == {i \in 1..Len(semanticResults) : semanticResults[i].key = key}
        kw == {i \in 1..Len(keys) : keys[i] = key}
        semantic == IF sem = {} THEN 0
                    ELSE Weighted(semanticResults[CHOOSE i \in sem : TRUE].similarity_score,
                                  SemanticWeightOf(body))
        keyword == IF kw = {} THEN 0
                   ELSE Weighted(KeywordResult(key).similarity_score,
                                 KeywordWeightOf(body))
    IN semantic + keyword

\* the keys and scores the request asks for, given the keyword rows
RequestedEntries(semanticResults, keys, body) ==
    {<<key, RequestedScore(key, semanticResults, keys, body)>> :
        key \in {semanticResults[i].key : i \in 1..Len(semanticResults)}
                \cup {keys[i] : i \in 1..Len(keys)}}

\* C32: the hybrid result list has exactly one entry per key of either
\* input, its score being the semantic score times the semantic weight
\* plus the keyword score times the keyword weight of the request, each
\* term only for the input that holds the key
C32_ScoresUseTheRequestedWeights ==
    [][(hybrid.pc = "keyword" /\ hybrid'.pc = "log") =>
          /\ \A i, j \in 1..Len(hybrid'.results) :
                 hybrid'.results[i].key = hybrid'.results[j].key => i = j
          /\ \E keys \in RowKeys :
                 {<<hybrid'.results[i].key, hybrid'.results[i].similarity_score>> :
                     i \in 1..Len(hybrid'.results)}
                   = RequestedEntries(hybrid.semanticResults, keys, hybrid.body)]_vars

\* C33: autoOptimizeIndexes asks for a rebuild on account of the health
\* check whenever an index reports a status other than healthy, whatever
\* the vector count and whether the optimization of a high count ran or
\* failed; with a count at or below the threshold and every index healthy
\* it asks for no rebuild
C33_UnhealthyIndexesAreRebuilt ==
    (indexRun.pc = "done" /\ ~indexRun.healthFailed) =>
        /\ UnhealthyIndexes(indexRun.reports) # {}
              => \E i \in 1..Len(indexRun.rebuilds) : indexRun.rebuilds[i] = "health"
        /\ ( /\ indexRun.total_vectors <= HighVolume
             /\ UnhealthyIndexes(indexRun.reports) = {} )
              => indexRun.rebuilds = <<>>

\* C34: a document-processing job whose processing fails on every attempt
\* is attempted MAX_RETRIES times: the first failures return it to
\* pending with retry_count incremented, the last marks it failed with its
\* document and the error message, and a failed job stays failed
C34_ThreeAttemptsThenFailed ==
    [][\A j \in PJobIds :
          /\ pjobs'[j].attempts <= MAX_RETRIES
          /\ pjobs[j].status = "failed" => pjobs'[j].status = "failed"
          /\ (pjobs[j].status = "processing" /\ pjobs'[j].status = "pending")
                => pjobs'[j].retry_count = pjobs[j].retry_count + 1
          /\ pjobs'[j].status = "failed"
                => /\ pjobs'[j].attempts = MAX_RETRIES
                   /\ pdocs'[j].processing_status = "failed"
                   /\ pdocs'[j].processing_error # "null"]_vars

\* C37: a pending document-processing job is claimed by one invocation of
\* processNextJob: no two invocations process the document of a job at
\* the same time
C37_OneInvocationPerJob ==
    \A i, k \in PInvIds :
        (i # k /\ pinvs[i].pc = "process" /\ pinvs[k].pc = "process")
            => pinvs[i].job # pinvs[k].job

\* C38: when a document-processing job is completed and its document
\* updated, the stored chunks of the document hold every chunk_index once
\* and their number is the chunk_count of the document
C38_ChunksMatchTheCount ==
    \A j \in PJobIds :
        (pjobs[j].status = "completed" /\ pdocs[j].processing_status = "completed")
            => /\ Len(pchunks[j]) = pdocs[j].chunk_count
               /\ \A a, b \in 1..Len(pchunks[j]) :
                      pchunks[j][a] = pchunks[j][b] => a = b

\* C35: an embedding job is run by one processJob invocation at a time:
\* the loop starts no second processJob for a job while an earlier one
\* for the same job is still running
C35_OneProcessJobPerJob ==
    \A i, k \in InvIds :
        (i # k /\ invs[i].pc # "none" /\ invs[k].pc # "none")
            => invs[i].job # invs[k].job

\* C36: at most one worker loop of the queue runs at any time, also when
\* stopProcessing is followed by addEmbeddingJob while the earlier loop
\* sleeps or awaits its query
C36_OneWorkerLoop ==
    Cardinality({l \in LoopIds : loops[l].pc # "none"}) <= 1

\* C40: activeJobs holds a job id only while a processJob invocation for
\* that job is running: the id is removed whenever processJob ends, after
\* success, after a failure with or without a retry, so a finished job
\* occupies no concurrency slot
C40_ActiveJobsAreRunning ==
    activeJobs \subseteq {invs[i].job : i \in Running}

\* a job has failed for good, processJob has ended and no slot is taken
C40_Witness ==
    /\ \E j \in Rows : jobs[j].status = "failed" /\ jobs[j].retry_count > RetryCeiling
    /\ Running = {}
    /\ activeJobs = {}

\* C39: every result of performHybridSearch has distance = 1 -
\* similarity_score, whether it comes from the semantic set, the keyword
\* set or both
C39_DistanceComplementsScore ==
    \A i \in 1..Len(hybrid.results) :
        hybrid.results[i].distance = ScoreOne - hybrid.results[i].similarity_score

====
